---- MODULE Spec2Model ----
(***************************************************************************)
(* IFHE Campus Assistant: data-access and AI-orchestration core.           *)
(*                                                                         *)
(*   - GoogleSheetsService (src/lib/sheets.ts): service-account token      *)
(*     cache and the row store calls appendRow/readRange/updateRange;      *)
(*   - AuthService.checkRateLimit and the rateLimit middleware             *)
(*     (lib/auth.ts);                                                      *)
(*   - AIService.answer (lib/ai.ts) and POST /api/chat (routes/chat.ts).   *)
(*                                                                         *)
(* Time is counted in ticks of 30 seconds: the 60000 ms rate window and    *)
(* the 60000 ms token buffer are 2 ticks each, a declared token lifetime   *)
(* of k ticks is expires_in = 30*k seconds.  JavaScript's undefined, null  *)
(* and the empty string are written 0 where the code only tests            *)
(* truthiness.                                                             *)
(***************************************************************************)
EXTENDS Integers, Sequences, FiniteSets, TLC

\* ------------------------------------------------------------------ bounds
MaxTime == 5          \* the clock stops advancing here
MaxLifetime == 3      \* declared token lifetimes are 1..MaxLifetime ticks
MaxCalls == 3         \* store calls made on GoogleSheetsService instances
MaxServices == 2      \* GoogleSheetsService instances constructed
MaxLimiterCalls == 5  \* checkRateLimit calls on the one AuthService
MaxN == 2             \* largest maxRequests tried on the one AuthService
MaxRequests == 1      \* chat requests handled by POST /api/chat
MaxGateRequests == 7  \* requests reaching the chat rate-limit middleware
MaxRows == 3          \* data rows the events sheet holds at the start
MaxCreated == 1       \* records passed to the create paths
MaxLimit == 3         \* largest limit passed to getChatLogs
MaxCallers == 2       \* concurrent getAccessToken calls on one instance
MaxRegistrants == 2   \* concurrent POST /api/register requests
MaxApiRequests == 2   \* requests handled by the events/notices/register API

\* --------------------------------------------------------- program constants
WindowMs == 2         \* rateLimit(authService, n, 60000): 60 s = 2 ticks
SafetyMargin == 2     \* "- 60000; // Subtract 1 minute for buffer"
ChatMaxRequests == 5  \* rateLimit(authService, 5, 60000)
MaxQuestionLength == 500
HourTicks == 120      \* 60 * 60 * 1000 ms: registration closes 1 hour before
RegisterMaxRequests == 10  \* rateLimit(authService, 10, 60000)
ReadMaxRequests == 20      \* rateLimit(authService, 20, 60000)

Identities == {"ip1", "ip2"}
Sheets == {"events", "notices", "registrations", "chat_logs"}
StoreOps == {"appendRow", "readRange", "updateRange"}
ServiceAccounts == {"absent", "malformed", "valid"}

VARIABLES
    now,            \* Date.now(), in ticks
    env,            \* CloudflareBindings: which secrets are configured
    \* --- GoogleSheetsService instance of the request being handled
    accessToken,    \* this.accessToken (0 = undefined)
    tokenExpiry,    \* this.tokenExpiry (0 = undefined)
    call,           \* the store call in progress on the instance
    tok,            \* observer: the getAccessToken invocation in progress or
                    \* just finished (forgotten when the clock moves on)
    issued,         \* token endpoint: number of tokens granted so far
    grant,          \* token endpoint: time and lifetime of the latest grant
    tables,         \* the spreadsheet: sheet name -> rows
    services,       \* number of instances constructed so far
    ncalls,         \* number of store calls started so far
    \* --- one AuthService instance
    rateLimitStore, \* Map identifier -> {count, resetTime}
    limMax,         \* the maxRequests argument used on this instance
    limLog,         \* observer: the calls made, <<identifier, time, result>>
    \* --- POST /api/chat
    req,            \* the chat request being handled
    served,         \* number of chat requests received so far
    gate,           \* observer of the chat middleware, per identity: when its
                    \* window opened, requests seen and admitted in the window
    gateLast,       \* the last answer of the chat middleware
    \* --- admin authentication
    adminKey,       \* env.ADMIN_API_KEY ("" = not configured)
    sessions,       \* observer: the session tokens admin logins have issued
    adm,            \* the last request to the admin login or to a guarded route
    \* --- repositories (getEvents, createEvent, ...)
    created,        \* observer: the record last passed to a create path
    listed,         \* the last result of a list path
    \* --- the HTTP API (events, notices, register, feedback)
    api,            \* the request being handled, or the one answered last
    handled,        \* number of requests received so far
    accepted,       \* observer: the (event_id, email) pairs registered so far
    \* --- concurrent executions
    callers,        \* getAccessToken invocations on one shared instance
    registrants            \* concurrent POST /api/register requests

sheetsVars == <<accessToken, tokenExpiry, call, tok, issued, grant, tables, services, ncalls>>
limiterVars == <<rateLimitStore, limMax, limLog>>
chatVars == <<req, served>>
gateVars == <<gate, gateLast>>
authVars == <<adminKey, sessions, adm>>
repoVars == <<created, listed>>
apiVars == <<api, handled, accepted>>
concVars == <<callers, registrants>>
otherVars == <<authVars, repoVars, apiVars, concVars>>
vars == <<now, env, sheetsVars, limiterVars, chatVars, gateVars, otherVars>>

\* auth.ts:67  private rateLimitStore = new Map()
EmptyStore == [k \in {} |-> 0]

\* ------------------------------------------------------------ JS helpers
Truthy(x) == x # 0

\* ============================================================ token cache
\* sheets.ts:16   this.accessToken && this.tokenExpiry && Date.now() < this.tokenExpiry
CacheValidForever(token, expiry, t) == Truthy(token) /\ Truthy(expiry)
CacheValid(token, expiry, t) == Truthy(token) /\ Truthy(expiry) /\ t < expiry

\* sheets.ts:14-28  getAccessToken up to its network request:
\*   "return"  the cached token is returned,
\*   "config"  throws 'Google service account credentials not configured',
\*   "sign"    createJWT throws (key cannot be imported) -> 'Authentication failed',
\*   "fetch"   the assertion is posted to the token endpoint.
TokenEnter(token, expiry, t, account) ==
    IF CacheValid(token, expiry, t) THEN "return"
    ELSE IF account = "absent" THEN "config"
    ELSE IF account = "malformed" THEN "sign"
    ELSE "fetch"

\* sheets.ts:40-53  the token endpoint has answered at time t
TokenExchangedEager(token, expiry, ok, newToken, lifetime, t) ==
    [accessToken |-> newToken,
     tokenExpiry |-> IF ok THEN t + lifetime - SafetyMargin ELSE expiry,
     threw |-> ~ok,
     value |-> IF ok THEN newToken ELSE 0]
TokenExchanged(token, expiry, ok, newToken, lifetime, t) ==
    IF ok
    THEN [accessToken |-> newToken, tokenExpiry |-> t + lifetime - SafetyMargin,
          threw |-> FALSE, value |-> newToken]
    ELSE [accessToken |-> token, tokenExpiry |-> expiry, threw |-> TRUE, value |-> 0]

\* the credential the process obtained last, and whether it is still usable
NoGrant == [at |-> 0, life |-> 0]
ProcessCredentialValid == issued > 0 /\ now < grant.at + grant.life - SafetyMargin

IdleCall == [op |-> "none", pc |-> "idle", sheet |-> "none", values |-> 0,
             range |-> 0, bearer |-> 0, storeRequests |-> 0, exchanges |-> 0,
             rejected |-> FALSE, outcome |-> "none"]
NoTok == [state |-> "none", startToken |-> 0, startExpiry |-> 0, startNow |-> 0,
          procValid |-> FALSE, requests |-> 0, answer |-> "none", value |-> 0]

Providers == <<"gemini", "groq", "openrouter">>
NoBody == [error |-> "", html |-> <<>>, model_used |-> "", timestamp |-> 0,
           source_links |-> <<>>]
NoInput == [json |-> FALSE, question |-> [raw |-> 0, trimmed |-> 0], user_email |-> <<>>]
IdleReq == [pc |-> "idle", stage |-> 0, question |-> 0, user_email |-> <<>>,
            input |-> NoInput,
            searched |-> FALSE, searchOutcome |-> "", searchResults |-> <<>>,
            inflight |-> "",
            asked |-> <<>>, args |-> <<>>, sent |-> <<>>, returned |-> <<>>,
            response |-> "", modelUsed |-> "", result |-> [response |-> "", model |-> ""],
            status |-> 0, body |-> NoBody, logged |-> FALSE]
NoGate == [opened |-> 0, seen |-> 0, admitted |-> 0]
\* a getAccessToken invocation: where it is suspended, the response of its
\* exchange (data.access_token, data.expires_in), what it wrote to the
\* instance and what it returned
NoCaller == [pc |-> "idle", ok |-> FALSE, token |-> 0, life |-> 0,
             wroteToken |-> 0, wroteExpiry |-> 0, value |-> 0]

\* the value of the Authorization header after extractTokenFromHeader
\* (auth.ts:23-32): nothing, a text that is not a base64 JSON document, or
\* the base64 of a JSON payload {role, exp} (exp may be missing)
NoBearer == [kind |-> "none", text |-> "", role |-> "", exp |-> 0, hasExp |-> FALSE]
TextBearer(text) == [NoBearer EXCEPT !.kind = "text", !.text = text]
Payload(role, exp, hasExp) == [kind |-> "payload", text |-> "", role |-> role,
                               exp |-> IF hasExp THEN exp ELSE 0, hasExp |-> hasExp]
NoAdm == [route |-> "none", bearer |-> NoBearer, status |-> 0, ran |-> FALSE, at |-> 0]
NoCreated == [kind |-> "none", record |-> [visible |-> FALSE], at |-> 0, n |-> 0]
NoListed == [kind |-> "none", ok |-> FALSE, items |-> <<>>, at |-> 0, limit |-> 0]
\* the fields the API handlers read from a request
NoApiInput == [event_id |-> <<>>, name |-> <<>>, email |-> <<>>, title |-> "",
               date_iso |-> 0, category |-> "", visible |-> TRUE, rating |-> 0,
               bearer |-> NoBearer]
NoRegistration == [id |-> <<>>, event_id |-> <<>>, name |-> <<>>, email |-> <<>>,
                   phone |-> "", department |-> "", year |-> "",
                   additional_info |-> ""]
\* a request in the API: the store call it awaits (step), what its store
\* calls did, and its response
NoApi == [route |-> "none", pc |-> "idle", step |-> "none", input |-> NoApiInput,
          registration |-> NoRegistration, wasAccepted |-> FALSE,
          lookup |-> "none", lookupAt |-> 0, found |-> FALSE, scan |-> "none",
          write |-> "none", failed |-> FALSE, calls |-> 0, appended |-> 0,
          arrivedAt |-> 0, status |-> 0, error |-> "", success |-> FALSE,
          count |-> 0, sends |-> 0, pending |-> 0, sendFailed |-> FALSE]

\* Cells.  An id is a pair <<text, number>> and <<>> when the cell is empty;
\* a text cell is a string; a date cell holding the ISO text of tick n is the
\* number n, 0 when the cell is empty and BadDate when its text is not a date.
BadDate == 0 - 1
\* the header rows of the setup guide, cell types as in the data rows
EventsHeader == <<<<"id", 0>>, "title", "description", BadDate, "location",
                  "rsvp_form", "visible", BadDate>>
NoticesHeader == <<<<"id", 0>>, "title", "body_html", "category", BadDate,
                   "visible", BadDate>>
RegistrationsHeader == <<<<"id", 0>>, <<"event_id", 0>>, <<"name">>, <<"email">>, "phone",
                         "department", "year", "additional_info", BadDate>>
ChatLogsHeader == <<BadDate, <<"user_email">>, "user_name", 0, "model_used", "status",
                    "raw_response", <<"final_answer_html">>, <<"source_links">>, "error">>
HeaderOf(sheet) == CASE sheet = "events" -> EventsHeader
                     [] sheet = "notices" -> NoticesHeader
                     [] sheet = "registrations" -> RegistrationsHeader
                     [] sheet = "chat_logs" -> ChatLogsHeader

\* ============================================================ store calls
RowValues == {<<"a">>}
CallSheets == {"events"}

\* sheets.ts:135, 164, 191: getAccessToken up to its first network request
BeginCallUnguarded(token, expiry, op, sheet, range, values) ==
    LET base == [IdleCall EXCEPT !.op = op, !.sheet = sheet, !.values = values,
                                 !.range = range]
        started == [NoTok EXCEPT !.startToken = token, !.startExpiry = expiry,
                                 !.startNow = now,
                                 !.procValid = ProcessCredentialValid]
        enter == TokenEnter(token, expiry, now, env.SERVICE_ACCOUNT)
    IN  IF enter = "return"
        THEN /\ call' = [base EXCEPT !.pc = "store", !.bearer = token,
                                     !.storeRequests = 1]
             /\ tok' = [started EXCEPT !.state = "returned", !.value = token]
        ELSE IF enter = "fetch"
        THEN /\ call' = [base EXCEPT !.pc = "exchange", !.exchanges = 1]
             /\ tok' = [started EXCEPT !.state = "fetch", !.requests = 1]
        ELSE /\ call' = [base EXCEPT !.pc = "done", !.outcome = "auth_error"]
             /\ tok' = [started EXCEPT !.state = "threw"]
\* sheets.ts:130-135, 159-164, 186-191: the sheet id check, then getAccessToken
\* up to its first network request, on an instance whose cache is (token, expiry)
BeginCall(token, expiry, op, sheet, range, values) ==
    LET base == [IdleCall EXCEPT !.op = op, !.sheet = sheet, !.values = values,
                                 !.range = range]
        started == [NoTok EXCEPT !.startToken = token, !.startExpiry = expiry,
                                 !.startNow = now,
                                 !.procValid = ProcessCredentialValid]
        enter == TokenEnter(token, expiry, now, env.SERVICE_ACCOUNT)
    IN  IF ~env.GOOGLE_SHEET_ID
        THEN /\ call' = [base EXCEPT !.pc = "done", !.outcome = "config_error"]
             /\ tok' = tok
        ELSE IF enter = "return"
        THEN /\ call' = [base EXCEPT !.pc = "store", !.bearer = token,
                                     !.storeRequests = 1]
             /\ tok' = [started EXCEPT !.state = "returned", !.value = token]
        ELSE IF enter = "fetch"
        THEN /\ call' = [base EXCEPT !.pc = "exchange", !.exchanges = 1]
             /\ tok' = [started EXCEPT !.state = "fetch", !.requests = 1]
        ELSE /\ call' = [base EXCEPT !.pc = "done", !.outcome = "auth_error"]
             /\ tok' = [started EXCEPT !.state = "threw"]

\* a request handler constructs its service: new GoogleSheetsService(c.env)
NewService ==
    /\ call.pc \in {"idle", "done"}
    /\ services < MaxServices
    /\ services' = services + 1
    /\ accessToken' = 0
    /\ tokenExpiry' = 0
    /\ call' = IdleCall
    /\ tok' = NoTok
    /\ UNCHANGED <<now, env, issued, grant, tables, ncalls, limiterVars, chatVars, gateVars, otherVars>>

\* appendRow / readRange / updateRange is called on the current instance
StartCall ==
    /\ call.pc \in {"idle", "done"}
    /\ ncalls < MaxCalls
    /\ ncalls' = ncalls + 1
    /\ \E op \in StoreOps, sheet \in CallSheets, values \in RowValues :
         \E range \in (IF op = "updateRange" THEN 1..(Len(tables[sheet]) + 1) ELSE {0}) :
            BeginCall(accessToken, tokenExpiry, op, sheet, range, values)
    /\ UNCHANGED <<now, env, accessToken, tokenExpiry, issued, grant, tables, services,
                   limiterVars, chatVars, gateVars, otherVars>>

\* sheets.ts:40-53: the token endpoint answers the exchange request
ExchangeResponse ==
    /\ call.pc = "exchange"
    /\ \E ok \in BOOLEAN, lifetime \in 1..MaxLifetime :
         LET r == TokenExchanged(accessToken, tokenExpiry, ok, issued + 1,
                                 lifetime, now)
         IN  /\ accessToken' = r.accessToken
             /\ tokenExpiry' = r.tokenExpiry
             /\ issued' = IF ok THEN issued + 1 ELSE issued
             /\ grant' = IF ok THEN [at |-> now, life |-> lifetime] ELSE grant
             /\ tok' = [tok EXCEPT !.state = IF r.threw THEN "threw" ELSE "returned",
                                   !.answer = IF ok THEN "ok" ELSE "rejected",
                                   !.value = r.value]
             /\ call' = IF r.threw
                        THEN [call EXCEPT !.pc = "done", !.outcome = "auth_error"]
                        ELSE [call EXCEPT !.pc = "store", !.bearer = r.value,
                                          !.storeRequests = 1]
    /\ UNCHANGED <<now, env, tables, services, ncalls, limiterVars, chatVars, gateVars, otherVars>>

\* the effect of an accepted store request on the spreadsheet
StoreEffectOverwriting(t, op, sheet, range, values) ==
    IF op = "appendRow" THEN [t EXCEPT ![sheet] = [@ EXCEPT ![Len(@)] = values]]
    ELSE IF op = "updateRange"
    THEN [t EXCEPT ![sheet] = IF range > Len(@) THEN Append(@, values)
                              ELSE [@ EXCEPT ![range] = values]]
    ELSE t
StoreEffect(t, op, sheet, range, values) ==
    IF op = "appendRow" THEN [t EXCEPT ![sheet] = Append(@, values)]
    ELSE IF op = "updateRange"
    THEN [t EXCEPT ![sheet] = IF range > Len(@) THEN Append(@, values)
                              ELSE [@ EXCEPT ![range] = values]]
    ELSE t

\* sheets.ts:152-155, 176-182, 208-211: the store answers the request;
\* "unauthorized" is the store rejecting the bearer credential
StoreResponseSurfacing ==
    /\ call.pc = "store"
    /\ \E answer \in {"ok", "unauthorized", "error"} :
         IF answer = "ok"
         THEN /\ tables' = StoreEffect(tables, call.op, call.sheet, call.range,
                                       call.values)
              /\ call' = [call EXCEPT !.pc = "done", !.outcome = "ok",
                                      !.values = 0, !.range = 0]
              /\ req' = req
         ELSE /\ tables' = tables
              /\ call' = [call EXCEPT !.pc = "done", !.outcome = "store_error",
                                      !.rejected = (answer = "unauthorized"),
                                      !.values = 0, !.range = 0]
              /\ req' = [req EXCEPT !.status = 500]
    /\ UNCHANGED <<now, env, accessToken, tokenExpiry, tok, issued, grant, services,
                   ncalls, limiterVars, served, gateVars, otherVars>>
StoreResponse ==
    /\ call.pc = "store"
    /\ \E answer \in {"ok", "unauthorized", "error"} :
         IF answer = "ok"
         THEN /\ tables' = StoreEffect(tables, call.op, call.sheet, call.range,
                                       call.values)
              /\ call' = [call EXCEPT !.pc = "done", !.outcome = "ok",
                                      !.values = 0, !.range = 0]
         ELSE /\ tables' = tables
              /\ call' = [call EXCEPT !.pc = "done", !.outcome = "store_error",
                                      !.rejected = (answer = "unauthorized"),
                                      !.values = 0, !.range = 0]
    /\ UNCHANGED <<now, env, accessToken, tokenExpiry, tok, issued, grant, services,
                   ncalls, limiterVars, chatVars, gateVars, otherVars>>

Tick ==
    /\ now < MaxTime
    /\ now' = now + 1
    /\ tok' = IF tok.state \in {"returned", "threw"} THEN NoTok ELSE tok
    /\ UNCHANGED <<env, accessToken, tokenExpiry, call, issued, grant, tables,
                   services, ncalls, limiterVars, chatVars, gateVars, otherVars>>

\* ------------------------------------------------------------ environment
EnvAll == [GEMINI_API_KEY : BOOLEAN, GROQ_API_KEY : BOOLEAN,
           OPENROUTER_API_KEY : BOOLEAN, GOOGLE_CSE : BOOLEAN,
           GOOGLE_SHEET_ID : BOOLEAN, SERVICE_ACCOUNT : ServiceAccounts]

\* the spreadsheet of the setup guide: four sheets holding their header rows
InitCore ==
    /\ now = SafetyMargin
    /\ accessToken = 0
    /\ tokenExpiry = 0
    /\ call = IdleCall
    /\ tok = NoTok
    /\ issued = 0
    /\ grant = NoGrant
    /\ services = 1
    /\ ncalls = 0
    /\ rateLimitStore = EmptyStore
    /\ limLog = <<>>
    /\ req = IdleReq
    /\ served = 0
    /\ gate = [i \in Identities |-> NoGate]
    /\ gateLast = [ip |-> "", status |-> 0]
    /\ adm = NoAdm
    /\ created = NoCreated
    /\ listed = NoListed
    /\ api = NoApi
    /\ handled = 0
    /\ accepted = {}
    /\ callers = [c \in 1..MaxCallers |-> NoCaller]
    /\ registrants = [r \in 1..MaxRegistrants |-> NoApi]
InitState ==
    /\ InitCore
    /\ tables = [s \in Sheets |-> <<HeaderOf(s)>>]

\* ---- the sheets service driven by request handlers
NoAuth ==
    /\ adminKey = ""
    /\ sessions = {}
InitSheets ==
    /\ InitState
    /\ NoAuth
    /\ limMax = 1
    /\ env \in {e \in EnvAll : e.GEMINI_API_KEY /\ e.GROQ_API_KEY
                               /\ e.OPENROUTER_API_KEY /\ e.GOOGLE_CSE}
NextSheets == NewService \/ StartCall \/ ExchangeResponse \/ StoreResponse \/ Tick
SpecSheets == InitSheets /\ [][NextSheets]_vars

\* ============================================================ rate limiter

\* auth.ts:69-83  checkRateLimit(identifier, maxRequests, windowMs) at time t
\* on the Map `store`: the result and the Map after the call
checkRateLimitExtending(store, identifier, maxRequests, windowMs, t) ==
    LET fresh == identifier \notin DOMAIN store \/ t > store[identifier].resetTime
        record == IF fresh THEN [count |-> 0, resetTime |-> t + windowMs]
                  ELSE store[identifier]
        counted == [count |-> record.count + 1,
                    resetTime |-> IF record.count + 1 > maxRequests
                                  THEN t + windowMs ELSE record.resetTime]
    IN  [ok |-> counted.count <= maxRequests,
         store |-> [k \in DOMAIN store \cup {identifier} |->
                       IF k = identifier THEN counted ELSE store[k]]]
checkRateLimit(store, identifier, maxRequests, windowMs, t) ==
    LET fresh == identifier \notin DOMAIN store \/ t > store[identifier].resetTime
        record == IF fresh THEN [count |-> 0, resetTime |-> t + windowMs]
                  ELSE store[identifier]
        counted == [record EXCEPT !.count = @ + 1]
    IN  [ok |-> counted.count <= maxRequests,
         store |-> [k \in DOMAIN store \cup {identifier} |->
                       IF k = identifier THEN counted ELSE store[k]]]

\* a caller invokes checkRateLimit on the one AuthService instance
CheckRateLimit ==
    /\ Len(limLog) < MaxLimiterCalls
    /\ \E identifier \in Identities :
         LET r == checkRateLimit(rateLimitStore, identifier, limMax, WindowMs, now)
         IN  /\ rateLimitStore' = r.store
             /\ limLog' = Append(limLog, <<identifier, now, r.ok>>)
    /\ UNCHANGED <<now, env, limMax, sheetsVars, chatVars, gateVars, otherVars>>

\* ---- one AuthService instance called with one maxRequests
InitLimiter ==
    /\ InitState
    /\ NoAuth
    /\ limMax \in 1..MaxN
    /\ env \in {e \in EnvAll : e.GEMINI_API_KEY /\ e.GROQ_API_KEY
                               /\ e.OPENROUTER_API_KEY /\ e.GOOGLE_CSE
                               /\ e.GOOGLE_SHEET_ID
                               /\ e.SERVICE_ACCOUNT = "valid"}
NextLimiter == CheckRateLimit \/ Tick
SpecLimiter == InitLimiter /\ [][NextLimiter]_vars

\* ================================================================== chat
\* chat.ts:12-15  the middleware builds its own AuthService for the request
\* and asks it for 5 requests per 60000 ms; TRUE when next() is called
ChatMiddleware(identifier, t) ==
    checkRateLimit(EmptyStore, identifier, ChatMaxRequests, WindowMs, t).ok

\* auth.ts:185-190  validateRequired on a string of `raw` characters of which
\* `trimmed` remain after trim(); raw = 0 is a missing or empty value
validateRequired(value) == value.raw = 0 \/ value.trimmed = 0

\* auth.ts:180-183  /^[^\s@]+@[^\s@]+\.[^\s@]+$/ on a sequence of characters
Plain(email, from, to) ==
    /\ from <= to
    /\ \A k \in from..to : email[k] \notin {" ", "@"}
validateEmail(email) ==
    \E i, j \in 1..Len(email) :
        /\ i < j
        /\ email[i] = "@"
        /\ email[j] = "."
        /\ Plain(email, 1, i - 1)
        /\ Plain(email, i + 1, j - 1)
        /\ Plain(email, j + 1, Len(email))

QuestionSamples == {[raw |-> 0, trimmed |-> 0], [raw |-> 2, trimmed |-> 0],
                    [raw |-> MaxQuestionLength + 2, trimmed |-> MaxQuestionLength],
                    [raw |-> MaxQuestionLength + 1, trimmed |-> MaxQuestionLength + 1]}
EmailSamples == {<<>>, <<"a", "@", "b", ".", "c">>, <<"a", "@", "b">>,
                 <<"a", " ", "@", "b", ".", "c">>}

\* chat.ts:20-40  the status the validation answers with, 0 when it passes
\* (500 when the body is not JSON and c.req.json() throws)
ChatValidationInclusive(json, question, user_email) ==
    IF ~json THEN 500
    ELSE IF validateRequired(question) THEN 400
    ELSE IF Len(user_email) > 0 /\ ~validateEmail(user_email) THEN 400
    ELSE IF question.trimmed >= MaxQuestionLength THEN 400
    ELSE 0
ChatValidation(json, question, user_email) ==
    IF ~json THEN 500
    ELSE IF validateRequired(question) THEN 400
    ELSE IF Len(user_email) > 0 /\ ~validateEmail(user_email) THEN 400
    ELSE IF question.trimmed > MaxQuestionLength THEN 400
    ELSE 0

\* ai.ts:170,175,180  the identifier reported for each provider
ModelId(p) == CASE p = "gemini" -> "gemini-1.5-flash"
                [] p = "groq" -> "deepseek-r1-distill-llama-70b"
                [] p = "openrouter" -> "qwen2.5-14b-instruct"
ApiKey(p) == CASE p = "gemini" -> env.GEMINI_API_KEY
               [] p = "groq" -> env.GROQ_API_KEY
               [] p = "openrouter" -> env.OPENROUTER_API_KEY

\* what a provider call can hand back: a text, or a truthy value that is not
\* a string (the parsed field is returned as it is), or nothing usable ("")
AnswerText(p) == CASE p = "gemini" -> "text of gemini"
                   [] p = "groq" -> "text of groq"
                   [] p = "openrouter" -> "text of openrouter"
AnswerObject(p) == CASE p = "gemini" -> "object of gemini"
                     [] p = "groq" -> "object of groq"
                     [] p = "openrouter" -> "object of openrouter"
IsString(v) == v \notin {AnswerObject(Providers[k]) : k \in 1..3}
ProviderOutcomes == {"text", "object", "empty", "missing", "exception"}
\* ai.ts:60-70, 101-111, 144-154  the value askX returns for an outcome
AskValue(p, outcome) ==
    CASE outcome = "text" -> AnswerText(p)
      [] outcome = "object" -> AnswerObject(p)
      [] OTHER -> ""

ErrorMessage == "fallback text"            \* ai.ts:245-254 getErrorMessage
HandlerErrorMessage == "handler error text" \* chat.ts:90-96

\* ai.ts:168-183  askX of stage k returned `value`: `if (response)` keeps it
\* and names the model, otherwise the next provider is tried
AdvanceAll(r, k, value) ==
    LET got == [r EXCEPT !.returned = Append(@, value), !.inflight = ""]
    IN  IF k = 3
        THEN [got EXCEPT !.pc = "respond", !.response = value,
                         !.modelUsed = IF value # "" THEN ModelId(Providers[k]) ELSE ""]
        ELSE [got EXCEPT !.pc = "ask", !.stage = k + 1]
Advance(r, k, value) ==
    LET got == [r EXCEPT !.returned = Append(@, value), !.inflight = ""]
    IN  IF value # ""
        THEN [got EXCEPT !.pc = "respond", !.response = value,
                         !.modelUsed = ModelId(Providers[k])]
        ELSE IF k = 3
        THEN [got EXCEPT !.pc = "respond", !.response = ""]
        ELSE [got EXCEPT !.pc = "ask", !.stage = k + 1]

\* ai.ts:185-197  what answer() returns
AnswerResultUnnamed(response, modelUsed) ==
    IF response = "" THEN [response |-> ErrorMessage, model |-> modelUsed]
    ELSE [response |-> response, model |-> modelUsed]
AnswerResult(response, modelUsed) ==
    IF response = "" THEN [response |-> ErrorMessage, model |-> "none"]
    ELSE [response |-> response, model |-> modelUsed]

\* ai.ts:201-222  formatHTML: the markup of the text, the list of links and
\* the disclaimer; text.replace throws when the text is not a string.
\* An html value is a tuple: <<text, links>> when formatted, <<message>> when
\* the handler sends a message as it is.
formatHTML(text, sourceLinks) == <<text, sourceLinks>>

\* sheets.ts:215-228  the row logChat appends
ChatLogRow(log) ==
    <<log.timestamp, log.user_email, log.user_name, log.question, log.model_used,
      log.status,
      log.raw_response, log.final_answer_html, log.source_links, log.error>>

\* chat.ts:57-114  from the value of answer() to the response and the chat log
ChatOutcomeHard(r, aiResult, t) ==
    IF IsString(aiResult.response) /\ aiResult.model # "none"
    THEN [status |-> 200,
          body |-> [NoBody EXCEPT !.html = formatHTML(aiResult.response, r.searchResults),
                                  !.model_used = aiResult.model, !.timestamp = t,
                                  !.source_links = r.searchResults],
          log |-> [timestamp |-> t, user_email |-> r.user_email, user_name |-> "",
                   question |-> r.question,
                   model_used |-> aiResult.model, status |-> "success",
                   raw_response |-> aiResult.response,
                   final_answer_html |-> formatHTML(aiResult.response, r.searchResults),
                   source_links |-> r.searchResults, error |-> ""]]
    ELSE [status |-> 500,
          body |-> [NoBody EXCEPT !.error = "Internal server error"],
          log |-> [timestamp |-> t, user_email |-> r.user_email, user_name |-> "",
                   question |-> r.question,
                   model_used |-> "", status |-> "error", raw_response |-> "",
                   final_answer_html |-> <<HandlerErrorMessage>>,
                   source_links |-> <<>>, error |-> "TypeError"]]
ChatOutcome(r, aiResult, t) ==
    IF IsString(aiResult.response)
    THEN [status |-> 200,
          body |-> [NoBody EXCEPT !.html = formatHTML(aiResult.response, r.searchResults),
                                  !.model_used = aiResult.model, !.timestamp = t,
                                  !.source_links = r.searchResults],
          log |-> [timestamp |-> t, user_email |-> r.user_email, user_name |-> "",
                   question |-> r.question,
                   model_used |-> aiResult.model, status |-> "success",
                   raw_response |-> aiResult.response,
                   final_answer_html |-> formatHTML(aiResult.response, r.searchResults),
                   source_links |-> r.searchResults, error |-> ""]]
    ELSE [status |-> 200,
          body |-> [NoBody EXCEPT !.html = <<HandlerErrorMessage>>, !.model_used = "none",
                                  !.timestamp = t],
          log |-> [timestamp |-> t, user_email |-> r.user_email, user_name |-> "",
                   question |-> r.question,
                   model_used |-> "", status |-> "error", raw_response |-> "",
                   final_answer_html |-> <<HandlerErrorMessage>>,
                   source_links |-> <<>>, error |-> "TypeError"]]

\* chat.ts:12-40  a request arrives: middleware, body parsing and validation
ChatArrive ==
    /\ req.pc \in {"idle", "responded"}
    /\ served < MaxRequests
    /\ served' = served + 1
    /\ \E ip \in Identities, json \in BOOLEAN, question \in QuestionSamples,
          user_email \in EmailSamples :
         LET v == ChatValidation(json, question, user_email)
             got == [IdleReq EXCEPT !.input = [json |-> json, question |-> question,
                                               user_email |-> user_email]]
         IN  req' = IF ~ChatMiddleware(ip, now)
                    THEN [got EXCEPT !.pc = "responded", !.status = 429,
                                     !.body.error = "Too many requests"]
                    ELSE IF v # 0
                    THEN [got EXCEPT !.pc = "responded", !.status = v,
                                     !.body.error = "invalid"]
                    ELSE [got EXCEPT !.pc = "context",
                                     !.question = question.trimmed,
                                     !.user_email = user_email]
    /\ UNCHANGED <<now, env, sheetsVars, limiterVars, gateVars, otherVars>>

\* ai.ts:12-35  getIFHEContext with the search keys configured or not, for
\* each outcome of its request ("items", "noitems", "fail"): whether a
\* request is made and the list returned; no outcome makes it throw
getIFHEContextUnguarded(configured, outcome) ==
    [requested |-> TRUE,
     results |-> IF outcome = "items" THEN <<"link">> ELSE <<>>]
getIFHEContext(configured, outcome) ==
    [requested |-> configured,
     results |-> IF configured /\ outcome = "items" THEN <<"link">> ELSE <<>>]

\* ai.ts:12-20, 160  answer() calls getIFHEContext: nothing is requested
\* without the search keys
ContextStartAhead ==
    /\ req.pc = "context"
    /\ req' = IF getIFHEContext(env.GOOGLE_CSE, "").requested
              THEN [req EXCEPT !.pc = "ask", !.stage = 1, !.inflight = "search",
                               !.searched = TRUE]
              ELSE [req EXCEPT !.pc = "ask", !.stage = 1,
                               !.searchResults = getIFHEContext(env.GOOGLE_CSE, "").results]
    /\ UNCHANGED <<now, env, served, sheetsVars, limiterVars, gateVars, otherVars>>
ContextStart ==
    /\ req.pc = "context"
    /\ req' = IF getIFHEContext(env.GOOGLE_CSE, "").requested
              THEN [req EXCEPT !.pc = "search", !.inflight = "search", !.searched = TRUE]
              ELSE [req EXCEPT !.pc = "ask", !.stage = 1,
                               !.searchResults = getIFHEContext(env.GOOGLE_CSE, "").results]
    /\ UNCHANGED <<now, env, served, sheetsVars, limiterVars, gateVars, otherVars>>

\* ai.ts:20-34  the search answered: items, no items, or the request failed
ContextResponse ==
    /\ req.pc = "search"
    /\ \E outcome \in {"items", "noitems", "fail"} :
         req' = [req EXCEPT !.pc = "ask", !.stage = 1, !.inflight = "",
                            !.searchOutcome = outcome,
                            !.searchResults = getIFHEContext(TRUE, outcome).results]
    /\ UNCHANGED <<now, env, served, sheetsVars, limiterVars, gateVars, otherVars>>

\* ai.ts:38-58  askX is called: without its key it returns null at once
AskStart ==
    /\ req.pc = "ask"
    /\ LET p == Providers[req.stage]
           called == [req EXCEPT !.asked = Append(@, p),
                                 !.args = Append(@, <<req.question, req.searchResults>>)]
       IN  req' = IF ApiKey(p)
                  THEN [called EXCEPT !.pc = "wait", !.inflight = p,
                                      !.sent = Append(@, p)]
                  ELSE Advance(called, req.stage, "")
    /\ UNCHANGED <<now, env, served, sheetsVars, limiterVars, gateVars, otherVars>>

\* ai.ts:60-70  the provider answered (or the request threw)
AskResponse ==
    /\ req.pc = "wait"
    /\ \E outcome \in ProviderOutcomes :
         req' = Advance(req, req.stage, AskValue(Providers[req.stage], outcome))
    /\ UNCHANGED <<now, env, served, sheetsVars, limiterVars, gateVars, otherVars>>

\* ai.ts:185-197 and chat.ts:59-114  answer() returns; the handler formats,
\* starts logChat on its own GoogleSheetsService without awaiting it, and
\* returns the response (the log task of the request before has settled)
ChatRespond ==
    /\ req.pc = "respond"
    /\ call.pc \in {"idle", "done"}
    /\ LET aiResult == AnswerResult(req.response, req.modelUsed)
           out == ChatOutcome(req, aiResult, now)
       IN  /\ req' = [req EXCEPT !.pc = "responded", !.result = aiResult,
                                 !.status = out.status, !.body = out.body,
                                 !.logged = TRUE]
           /\ BeginCall(0, 0, "appendRow", "chat_logs", 0, ChatLogRow(out.log))
    /\ accessToken' = 0
    /\ tokenExpiry' = 0
    /\ services' = services + 1
    /\ ncalls' = ncalls + 1
    /\ UNCHANGED <<now, env, served, issued, grant, tables, limiterVars, gateVars, otherVars>>

\* ---- the chat endpoint.  The handler reads the clock once, for the
\* timestamp; the rate window is exercised in SpecGate and the token lifetime
\* in SpecSheets, where the clock advances.
\* the configurations tried: all provider keys, one missing, or none; the
\* sheet id or the service account missing, or both present
KeysMissing(e) == Cardinality({k \in {"GEMINI_API_KEY", "GROQ_API_KEY",
                                      "OPENROUTER_API_KEY"} : ~e[k]})
EnvChat == {e \in EnvAll : /\ KeysMissing(e) # 2
                            /\ e.SERVICE_ACCOUNT # "malformed"
                            /\ (e.SERVICE_ACCOUNT = "valid" \/ e.GOOGLE_SHEET_ID)}
Init ==
    /\ InitState
    /\ NoAuth
    /\ limMax = 1
    /\ env \in EnvChat
Next == \/ ChatArrive \/ ContextStart \/ ContextResponse \/ AskStart \/ AskResponse
        \/ ChatRespond \/ ExchangeResponse \/ StoreResponse
Spec == Init /\ [][Next]_vars

\* ---- the rate-limit middleware in front of the chat endpoint
\* chat.ts:12-15 with auth.ts:139-152: next() or 429
ChatGate ==
    /\ served < MaxGateRequests
    /\ served' = served + 1
    /\ \E ip \in Identities :
         LET ok == ChatMiddleware(ip, now)
             g == gate[ip]
             opens == g.opened = 0 \/ now > g.opened + WindowMs
             w == IF opens THEN [NoGate EXCEPT !.opened = now] ELSE g
         IN  /\ gate' = [gate EXCEPT ![ip] = [w EXCEPT !.seen = @ + 1,
                                !.admitted = IF ok THEN @ + 1 ELSE @]]
             /\ gateLast' = [ip |-> ip, status |-> IF ok THEN 200 ELSE 429]
    /\ UNCHANGED <<now, env, req, sheetsVars, limiterVars, otherVars>>
InitGate ==
    /\ InitLimiter
    /\ limMax = 1
NextGate == ChatGate \/ Tick
SpecGate == InitGate /\ [][NextGate]_vars

\* ====================================================== admin authentication
DayTicks == 2880      \* 24 * 60 * 60 seconds, in ticks
AdminKeys == {"", "secret"}

\* auth.ts:13-20  validateAdminKey
validateAdminKey(key, provided) ==
    IF key = "" THEN FALSE
    ELSE provided.kind = "text" /\ provided.text = key

\* auth.ts:35-45  createSessionToken at time t
createSessionToken(t) == Payload("admin", t + DayTicks, TRUE)

\* auth.ts:48-64  validateSessionToken: the session, or "null" when the
\* token cannot be decoded or decoded.exp < now (false for a missing exp)
validateSessionToken(token, t) ==
    IF token.kind # "payload" THEN "null"
    ELSE IF token.hasExp /\ token.exp < t THEN "null"
    ELSE token.role

\* auth.ts:109-136  requireAdmin: TRUE when next() is called, FALSE for 401
requireAdmin(key, bearer, t) ==
    IF bearer.kind = "none" \/ (bearer.kind = "text" /\ bearer.text = "") THEN FALSE
    ELSE IF validateAdminKey(key, bearer) THEN TRUE
    ELSE validateSessionToken(bearer, t) = "admin"

\* the bearer values a client may send: what the server issued, keys, and
\* payloads the client wrote itself
ForgedPayloads == {Payload(role, exp, hasExp) : role \in {"admin", "user"},
                   exp \in {SafetyMargin + 1, DayTicks + SafetyMargin},
                   hasExp \in BOOLEAN}
Bearers == {NoBearer, TextBearer(""), TextBearer("secret"), TextBearer("guess")}
           \cup ForgedPayloads \cup sessions

\* admin.ts:18-64  POST /api/admin/login with body.api_key
AdminLogin ==
    /\ \E api_key \in {"", "secret", "guess"} :
         LET status == IF api_key = "" THEN 400
                       ELSE IF ~validateAdminKey(adminKey, TextBearer(api_key)) THEN 401
                       ELSE 200
         IN  /\ sessions' = IF status = 200
                            THEN sessions \cup {createSessionToken(now)}
                            ELSE sessions
             /\ adm' = [NoAdm EXCEPT !.route = "login", !.bearer = TextBearer(api_key),
                                     !.status = status, !.at = now]
    /\ UNCHANGED <<now, env, adminKey, sheetsVars, limiterVars, chatVars, gateVars,
                   repoVars, apiVars, concVars>>

\* admin.ts:67-70 (and events.ts:95-98, notices, register): a request to a
\* route behind requireAdmin; the handler runs when next() is called
AdminRequest ==
    /\ \E bearer \in Bearers :
         LET ok == requireAdmin(adminKey, bearer, now)
         IN  adm' = [NoAdm EXCEPT !.route = "guarded", !.bearer = bearer,
                                  !.status = IF ok THEN 200 ELSE 401,
                                  !.ran = ok, !.at = now]
    /\ UNCHANGED <<now, env, adminKey, sessions, sheetsVars, limiterVars, chatVars,
                   gateVars, repoVars, apiVars, concVars>>

\* ---- the admin surface; logins made a day before the clock starts have
\* left tokens that expire around now
InitAuth ==
    /\ InitState
    /\ limMax = 1
    /\ env \in {e \in EnvAll : e.GEMINI_API_KEY /\ e.GROQ_API_KEY
                               /\ e.OPENROUTER_API_KEY /\ e.GOOGLE_CSE
                               /\ e.GOOGLE_SHEET_ID
                               /\ e.SERVICE_ACCOUNT = "valid"}
    /\ adminKey \in AdminKeys
    /\ sessions \in IF adminKey = "" THEN {{}}
                    ELSE SUBSET {Payload("admin", SafetyMargin + 1, TRUE),
                                 Payload("admin", SafetyMargin + 2, TRUE)}
NextAuth == AdminLogin \/ AdminRequest \/ Tick
SpecAuth == InitAuth /\ [][NextAuth]_vars

\* ============================================================ repositories
\* new Date(cell).getTime() is a number (not NaN)
ValidDate(cell) == cell > 0

\* row[k] || fallback, by the type of the column (k counts from 0 as in the code)
OrId(row, k, fallback) ==
    IF k + 1 <= Len(row) /\ row[k + 1] # <<>> THEN row[k + 1] ELSE fallback
OrText(row, k, fallback) ==
    IF k + 1 <= Len(row) /\ row[k + 1] # "" THEN row[k + 1] ELSE fallback
OrDate(row, k, fallback) ==
    IF k + 1 <= Len(row) /\ row[k + 1] # 0 THEN row[k + 1] ELSE fallback
\* row[k] === 'TRUE' || row[k] === true
IsTrueCell(row, k) == k + 1 <= Len(row) /\ row[k + 1] = "TRUE"

\* sheets.ts:243-252  the Event of row i (i counts from 0) read at time t
EventOfRow(row, i, t) ==
    [id |-> OrId(row, 0, <<"event_", i>>),
     title |-> OrText(row, 1, ""),
     description |-> OrText(row, 2, ""),
     date_iso |-> OrDate(row, 3, 0),
     location |-> OrText(row, 4, ""),
     rsvp_form |-> OrText(row, 5, ""),
     visible |-> IsTrueCell(row, 6),
     created_at |-> OrDate(row, 7, t)]

\* sheets.ts:255  event.visible && new Date(event.date_iso) >= new Date()
EventListedAnyDate(event, t) == event.visible
EventListed(event, t) ==
    event.visible /\ ValidDate(event.date_iso) /\ event.date_iso >= t

\* sheets.ts:239-258  the loop over rows[1..]: rows i..Len-1 (from 0) in order
RECURSIVE EventsFrom(_, _, _)
EventsFrom(rows, i, t) ==
    IF i + 1 > Len(rows) THEN <<>>
    ELSE LET row == rows[i + 1]
             rest == EventsFrom(rows, i + 1, t)
         IN  IF Len(row) = 0 THEN rest
             ELSE IF EventListed(EventOfRow(row, i, t), t)
                  THEN <<EventOfRow(row, i, t)>> \o rest
                  ELSE rest

\* sheets.ts:260  Array.prototype.sort by date, ascending; the sort is stable
RECURSIVE InsertByDate(_, _)
InsertByDate(e, sorted) ==
    IF sorted = <<>> THEN <<e>>
    ELSE IF e.date_iso < Head(sorted).date_iso THEN <<e>> \o sorted
    ELSE <<Head(sorted)>> \o InsertByDate(e, Tail(sorted))
RECURSIVE SortByDate(_)
SortByDate(events) ==
    IF events = <<>> THEN <<>>
    ELSE InsertByDate(events[Len(events)], SortByDate(SubSeq(events, 1, Len(events) - 1)))

\* sheets.ts:231-265  getEvents at time t: `read` is the outcome of readRange
\* ("ok" with `rows`, or a failure, which the catch turns into [])
getEvents(read, rows, t) ==
    IF read # "ok" THEN <<>>
    ELSE IF Len(rows) <= 1 THEN <<>>
    ELSE SortByDate(EventsFrom(rows, 1, t))

\* rows an events sheet may hold
EventRowSamples ==
    {<<<<"row", 1>>, "first", "d", SafetyMargin + 2, "hall", "", "TRUE", 1>>,
     <<<<"row", 2>>, "second", "d", SafetyMargin + 1, "hall", "form", "TRUE", 1>>,
     <<<<"row", 3>>, "hidden", "d", SafetyMargin + 2, "hall", "", "FALSE", 1>>,
     <<<<"row", 4>>, "past", "d", 1, "hall", "", "TRUE", 1>>,
     <<<<"row", 5>>, "undated", "d", BadDate, "hall", "", "TRUE", 1>>,
     <<<<>>, "unnamed", "d", SafetyMargin + 3, "hall", "", "TRUE">>,
     <<<<"row", 7>>, "short", "d", SafetyMargin + 3>>,
     <<>>}
RECURSIVE SeqsUpTo(_, _)
SeqsUpTo(S, n) ==
    IF n = 0 THEN {<<>>}
    ELSE LET shorter == SeqsUpTo(S, n - 1)
         IN  shorter \cup {Append(q, x) : q \in shorter, x \in S}

\* getEvents is called; its readRange succeeds or fails
ListEvents ==
    /\ \E read \in {"ok", "failed"} :
         listed' = [kind |-> "events", ok |-> (read = "ok"),
                    items |-> getEvents(read, tables.events, now), at |-> now,
                    limit |-> 0]
    /\ UNCHANGED <<now, env, sheetsVars, limiterVars, chatVars, gateVars, authVars,
                   created, apiVars, concVars>>

\* ---- the repositories over a sheet that already holds rows
InitRepo ==
    /\ InitCore
    /\ \E data \in SeqsUpTo(EventRowSamples, MaxRows) :
         tables = [s \in Sheets |-> IF s = "events" THEN <<EventsHeader>> \o data
                                    ELSE <<HeaderOf(s)>>]
    /\ NoAuth
    /\ limMax = 1
    /\ env \in {e \in EnvAll : e.GEMINI_API_KEY /\ e.GROQ_API_KEY
                               /\ e.OPENROUTER_API_KEY /\ e.GOOGLE_CSE
                               /\ e.GOOGLE_SHEET_ID
                               /\ e.SERVICE_ACCOUNT = "valid"}
NextRepo == ListEvents \/ Tick
SpecRepo == InitRepo /\ [][NextRepo]_vars

\* ------------------------------------------ notices, registrations, chat logs
\* sheets.ts:279-287  the Notice of row i read at time t
NoticeOfRow(row, i, t) ==
    [id |-> OrId(row, 0, <<"notice_", i>>),
     title |-> OrText(row, 1, ""),
     body_html |-> OrText(row, 2, ""),
     category |-> OrText(row, 3, "General"),
     posted_at_iso |-> OrDate(row, 4, t),
     visible |-> IsTrueCell(row, 5),
     created_at |-> OrDate(row, 6, t)]
RECURSIVE NoticesFrom(_, _, _)
NoticesFrom(rows, i, t) ==
    IF i + 1 > Len(rows) THEN <<>>
    ELSE LET row == rows[i + 1]
             rest == NoticesFrom(rows, i + 1, t)
         IN  IF Len(row) = 0 THEN rest
             ELSE IF NoticeOfRow(row, i, t).visible
                  THEN <<NoticeOfRow(row, i, t)>> \o rest
                  ELSE rest
\* sheets.ts:294  stable sort, newest posted_at_iso first (the rows modelled
\* carry dates that parse)
RECURSIVE InsertByPosted(_, _)
InsertByPosted(n, sorted) ==
    IF sorted = <<>> THEN <<n>>
    ELSE IF n.posted_at_iso > Head(sorted).posted_at_iso THEN <<n>> \o sorted
    ELSE <<Head(sorted)>> \o InsertByPosted(n, Tail(sorted))
RECURSIVE SortByPosted(_)
SortByPosted(notices) ==
    IF notices = <<>> THEN <<>>
    ELSE InsertByPosted(notices[Len(notices)],
                        SortByPosted(SubSeq(notices, 1, Len(notices) - 1)))
\* sheets.ts:268-299  getNotices
getNotices(read, rows, t) ==
    IF read # "ok" THEN <<>>
    ELSE IF Len(rows) <= 1 THEN <<>>
    ELSE SortByPosted(NoticesFrom(rows, 1, t))

\* register.ts:268-278  the registration of a row, as GET /admin/all lists it
RegistrationOfRow(row) ==
    [id |-> OrId(row, 0, <<>>),
     event_id |-> OrId(row, 1, <<>>),
     name |-> OrId(row, 2, <<>>),
     email |-> OrId(row, 3, <<>>),
     phone |-> OrText(row, 4, ""),
     department |-> OrText(row, 5, ""),
     year |-> OrText(row, 6, ""),
     additional_info |-> OrText(row, 7, ""),
     registered_at |-> OrDate(row, 8, 0)]
RECURSIVE RegistrationsFrom(_, _)
RegistrationsFrom(rows, i) ==
    IF i + 1 > Len(rows) THEN <<>>
    ELSE LET row == rows[i + 1]
             rest == RegistrationsFrom(rows, i + 1)
         IN  IF Len(row) = 0 THEN rest ELSE <<RegistrationOfRow(row)>> \o rest
RECURSIVE InsertByRegistered(_, _)
InsertByRegistered(r, sorted) ==
    IF sorted = <<>> THEN <<r>>
    ELSE IF r.registered_at > Head(sorted).registered_at THEN <<r>> \o sorted
    ELSE <<Head(sorted)>> \o InsertByRegistered(r, Tail(sorted))
RECURSIVE SortByRegistered(_)
SortByRegistered(regs) ==
    IF regs = <<>> THEN <<>>
    ELSE InsertByRegistered(regs[Len(regs)],
                            SortByRegistered(SubSeq(regs, 1, Len(regs) - 1)))
\* register.ts:249-298  GET /api/register/admin/all over the rows read
getRegistrations(read, rows) ==
    IF read # "ok" THEN <<>>
    ELSE IF Len(rows) <= 1 THEN <<>>
    ELSE SortByRegistered(RegistrationsFrom(rows, 1))

\* sheets.ts:332-343  the ChatLog of a row
ChatLogOfRowGuessing(row) ==
    [timestamp |-> OrDate(row, 0, 0),
     user_email |-> OrId(row, 1, <<>>),
     user_name |-> OrText(row, 2, ""),
     question |-> OrDate(row, 3, 0),
     model_used |-> OrText(row, 4, "unknown"),
     status |-> OrText(row, 5, "error"),
     raw_response |-> OrText(row, 6, ""),
     final_answer_html |-> OrId(row, 7, <<>>),
     source_links |-> OrId(row, 8, <<>>),
     error |-> OrText(row, 9, "")]
ChatLogOfRow(row) ==
    [timestamp |-> OrDate(row, 0, 0),
     user_email |-> OrId(row, 1, <<>>),
     user_name |-> OrText(row, 2, ""),
     question |-> OrDate(row, 3, 0),
     model_used |-> OrText(row, 4, ""),
     status |-> OrText(row, 5, "error"),
     raw_response |-> OrText(row, 6, ""),
     final_answer_html |-> OrId(row, 7, <<>>),
     source_links |-> OrId(row, 8, <<>>),
     error |-> OrText(row, 9, "")]
\* sheets.ts:326-344  rows startIndex..Len-1 (from 0), empty rows skipped
RECURSIVE ChatLogsFrom(_, _)
ChatLogsFrom(rows, i) ==
    IF i + 1 > Len(rows) THEN <<>>
    ELSE LET row == rows[i + 1]
             rest == ChatLogsFrom(rows, i + 1)
         IN  IF Len(row) = 0 THEN rest ELSE <<ChatLogOfRow(row)>> \o rest
Reverse(q) == [k \in 1..Len(q) |-> q[Len(q) + 1 - k]]
Max(a, b) == IF a >= b THEN a ELSE b
\* sheets.ts:320-351  getChatLogs(limit)
getChatLogsFromTop(read, rows, limit) ==
    IF read # "ok" THEN <<>>
    ELSE IF Len(rows) <= 1 THEN <<>>
    ELSE Reverse(ChatLogsFrom(rows, Max(0, Len(rows) - limit)))
getChatLogs(read, rows, limit) ==
    IF read # "ok" THEN <<>>
    ELSE IF Len(rows) <= 1 THEN <<>>
    ELSE Reverse(ChatLogsFrom(rows, Max(1, Len(rows) - limit)))
ChatLogLimit == 50    \* getChatLogs(limit: number = 50)

\* ------------------------------------------------------------ create paths
\* `${prefix}_${Date.now()}_${Math.random().toString(36).substring(7)}`
GeneratedId(prefix, t, suffix) == <<prefix, t, suffix>>
RandomSuffixes == {"k3x"}

\* sheets.ts:354-368  the row createEvent appends
EventRowLower(id, event, timestamp) ==
    <<id, event.title, event.description, event.date_iso, event.location,
      event.rsvp_form, IF event.visible THEN "true" ELSE "false", timestamp>>
EventRow(id, event, timestamp) ==
    <<id, event.title, event.description, event.date_iso, event.location,
      event.rsvp_form, IF event.visible THEN "TRUE" ELSE "FALSE", timestamp>>
\* sheets.ts:371-384  the row createNotice appends
NoticeRow(id, notice, timestamp) ==
    <<id, notice.title, notice.body_html, notice.category, notice.posted_at_iso,
      IF notice.visible THEN "TRUE" ELSE "FALSE", timestamp>>
\* sheets.ts:302-317  the row addRegistration appends
RegistrationRow(generated, registration, timestamp) ==
    <<IF registration.id # <<>> THEN registration.id ELSE generated,
      registration.event_id, registration.name, registration.email,
      registration.phone, registration.department, registration.year,
      registration.additional_info, timestamp>>

Kinds == {"events", "notices", "registrations", "chat_logs"}
\* the row a create path appends for `record` at time t
CreatedRow(kind, record, t, suffix) ==
    CASE kind = "events" -> EventRow(GeneratedId("event", t, suffix), record, t)
      [] kind = "notices" -> NoticeRow(GeneratedId("notice", t, suffix), record, t)
      [] kind = "registrations" ->
            RegistrationRow(GeneratedId("reg", t, suffix), record, t)
      [] kind = "chat_logs" -> ChatLogRow(record)
\* what a list path returns for the rows read
ListedItems(kind, read, rows, t, limit) ==
    CASE kind = "events" -> getEvents(read, rows, t)
      [] kind = "notices" -> getNotices(read, rows, t)
      [] kind = "registrations" -> getRegistrations(read, rows)
      [] kind = "chat_logs" -> getChatLogs(read, rows, limit)

\* records a caller may pass
EventRecords ==
    {[title |-> "talk", description |-> "d", date_iso |-> d, location |-> "hall",
      rsvp_form |-> "", visible |-> v] : d \in {SafetyMargin + 1, BadDate}, v \in BOOLEAN}
NoticeRecords ==
    {[title |-> "note", body_html |-> "b", category |-> c,
      posted_at_iso |-> SafetyMargin, visible |-> v] :
        c \in {"Academic", ""}, v \in BOOLEAN}
RegistrationRecords ==
    {[id |-> <<>>, event_id |-> <<"row", 1>>, name |-> <<"a", "s">>,
      email |-> <<"a", "@", "b", ".", "c">>, phone |-> p, department |-> "",
      year |-> "", additional_info |-> ""] : p \in {"", "98"}}
ChatLogRecords ==
    {[timestamp |-> SafetyMargin, user_email |-> <<>>, user_name |-> "", question |-> 5,
      model_used |-> ModelId("groq"), status |-> st, raw_response |-> "r",
      final_answer_html |-> formatHTML("r", <<>>), source_links |-> <<>>,
      error |-> ""] : st \in {"success", "error"}}
RecordsOf(kind) == CASE kind = "events" -> EventRecords
                     [] kind = "notices" -> NoticeRecords
                     [] kind = "registrations" -> RegistrationRecords
                     [] kind = "chat_logs" -> ChatLogRecords

\* createEvent / createNotice / addRegistration / logChat is called with a
\* record and its append is accepted by the store, or fails
CreateRecord ==
    /\ created.n < MaxCreated
    /\ \E kind \in Kinds, write \in {"ok", "failed"}, suffix \in RandomSuffixes :
         \E record \in RecordsOf(kind) :
            IF write = "ok"
            THEN /\ tables' = StoreEffect(tables, "appendRow", kind, 0,
                                          CreatedRow(kind, record, now, suffix))
                 /\ created' = [kind |-> kind, record |-> record, at |-> now,
                                n |-> created.n + 1]
            ELSE /\ tables' = tables
                 /\ created' = [created EXCEPT !.n = @ + 1]
    /\ listed' = NoListed
    /\ UNCHANGED <<now, env, accessToken, tokenExpiry, call, tok, issued, grant,
                   services, ncalls, limiterVars, chatVars, gateVars, authVars, apiVars,
                   concVars>>

\* getEvents / getNotices / the registrations listing / getChatLogs is called
ListRecords ==
    /\ \E kind \in Kinds, read \in {"ok", "failed"} :
         \E limit \in (IF kind = "chat_logs" THEN {ChatLogLimit} \cup 0..MaxLimit
                       ELSE {0}) :
            listed' = [kind |-> kind, ok |-> (read = "ok"),
                       items |-> ListedItems(kind, read, tables[kind], now, limit),
                       at |-> now, limit |-> limit]
    /\ UNCHANGED <<now, env, sheetsVars, limiterVars, chatVars, gateVars, authVars,
                   created, apiVars, concVars>>

\* ---- list paths over a sheet whose rows have cells missing
\* rows a sheet may hold: a complete one, one that ends early or has empty
\* cells, and an empty one
ReaderRowSamples(kind) ==
    CASE kind = "events" ->
            {<<<<"row", 1>>, "full", "d", SafetyMargin + 3, "hall", "form", "TRUE", 1>>,
             <<<<>>, "", "", SafetyMargin + 3, "", "", "TRUE">>,
             <<>>}
      [] kind = "notices" ->
            {<<<<"row", 1>>, "full", "b", "Academic", 1, "TRUE", 1>>,
             <<<<>>, "", "", "", 0, "TRUE">>,
             <<>>}
      [] kind = "registrations" ->
            {<<<<"reg", 1, "k3x">>, <<"row", 1>>, <<"a", "s">>, <<"a", "@", "b", ".", "c">>,
               "98", "cs",
               "2", "none", 1>>,
             <<<<"reg", 2, "k3x">>, <<"row", 1>>>>,
             <<>>}
      [] kind = "chat_logs" ->
            {<<1, <<"a", "@", "b", ".", "c">>, "n", 5, "gemini-1.5-flash", "success", "r", <<"r">>,
               <<"link">>, "e">>,
             <<2, <<>>, "", 7>>,
             <<>>}
InitReaders ==
    /\ InitCore
    /\ \E kind \in Kinds : \E data \in SeqsUpTo(ReaderRowSamples(kind), MaxRows) :
         tables = [s \in Sheets |-> IF s = kind THEN <<HeaderOf(s)>> \o data
                                    ELSE <<HeaderOf(s)>>]
    /\ NoAuth
    /\ limMax = 1
    /\ env \in {e \in EnvAll : e.GEMINI_API_KEY /\ e.GROQ_API_KEY
                               /\ e.OPENROUTER_API_KEY /\ e.GOOGLE_CSE
                               /\ e.GOOGLE_SHEET_ID
                               /\ e.SERVICE_ACCOUNT = "valid"}
NextReaders == ListRecords \/ Tick
SpecReaders == InitReaders /\ [][NextReaders]_vars

\* ---- create paths and list paths over sheets holding their header rows
InitRoundTrip ==
    /\ InitState
    /\ NoAuth
    /\ limMax = 1
    /\ env \in {e \in EnvAll : e.GEMINI_API_KEY /\ e.GROQ_API_KEY
                               /\ e.OPENROUTER_API_KEY /\ e.GOOGLE_CSE
                               /\ e.GOOGLE_SHEET_ID
                               /\ e.SERVICE_ACCOUNT = "valid"}
NextRoundTrip == CreateRecord \/ ListRecords \/ Tick
SpecRoundTrip == InitRoundTrip /\ [][NextRoundTrip]_vars

\* ---- concurrent getAccessToken calls on one GoogleSheetsService
\* sheets.ts:14-38  a caller enters: cached token, throw, or the exchange
CallerEnter(c) ==
    /\ callers[c].pc = "idle"
    /\ LET enter == TokenEnter(accessToken, tokenExpiry, now, env.SERVICE_ACCOUNT)
       IN  callers' = [callers EXCEPT ![c] =
               IF enter = "return"
               THEN [@ EXCEPT !.pc = "done", !.value = accessToken]
               ELSE IF enter = "fetch" THEN [@ EXCEPT !.pc = "exchange"]
               ELSE [@ EXCEPT !.pc = "threw"]]
    /\ UNCHANGED <<now, env, sheetsVars, limiterVars, chatVars, gateVars, authVars,
                   repoVars, apiVars, registrants>>
\* the token endpoint answers the caller's request; the caller is still
\* suspended in `await fetch` / `await response.json()`
CallerAnswered(c) ==
    /\ callers[c].pc = "exchange"
    /\ \E ok \in BOOLEAN, lifetime \in 1..MaxLifetime :
         /\ callers' = [callers EXCEPT ![c] =
                [@ EXCEPT !.pc = "json", !.ok = ok,
                          !.token = IF ok THEN issued + 1 ELSE 0,
                          !.life = IF ok THEN lifetime ELSE 0]]
         /\ issued' = IF ok THEN issued + 1 ELSE issued
         /\ grant' = IF ok THEN [at |-> now, life |-> lifetime] ELSE grant
    /\ UNCHANGED <<now, env, accessToken, tokenExpiry, call, tok, tables, services,
                   ncalls, limiterVars, chatVars, gateVars, authVars, repoVars,
                   apiVars, registrants>>
\* sheets.ts:40-53  the caller resumes with the response and runs to its
\* return or throw without suspending
CallerResumeTorn(c) ==
    /\ callers[c].pc = "json"
    /\ LET r == TokenExchanged(accessToken, tokenExpiry, callers[c].ok,
                               callers[c].token, callers[c].life, now)
       IN  /\ accessToken' = r.accessToken
           /\ tokenExpiry' = IF tokenExpiry # 0 THEN tokenExpiry ELSE r.tokenExpiry
           /\ callers' = [callers EXCEPT ![c] =
                  IF r.threw THEN [@ EXCEPT !.pc = "threw"]
                  ELSE [@ EXCEPT !.pc = "done", !.value = r.value,
                                 !.wroteToken = r.accessToken,
                                 !.wroteExpiry = r.tokenExpiry]]
    /\ UNCHANGED <<now, env, call, tok, issued, grant, tables, services, ncalls,
                   limiterVars, chatVars, gateVars, authVars, repoVars, apiVars,
                   registrants>>
CallerResume(c) ==
    /\ callers[c].pc = "json"
    /\ LET r == TokenExchanged(accessToken, tokenExpiry, callers[c].ok,
                               callers[c].token, callers[c].life, now)
       IN  /\ accessToken' = r.accessToken
           /\ tokenExpiry' = r.tokenExpiry
           /\ callers' = [callers EXCEPT ![c] =
                  IF r.threw THEN [@ EXCEPT !.pc = "threw"]
                  ELSE [@ EXCEPT !.pc = "done", !.value = r.value,
                                 !.wroteToken = r.accessToken,
                                 !.wroteExpiry = r.tokenExpiry]]
    /\ UNCHANGED <<now, env, call, tok, issued, grant, tables, services, ncalls,
                   limiterVars, chatVars, gateVars, authVars, repoVars, apiVars, registrants>>
InitToken ==
    /\ InitState
    /\ NoAuth
    /\ limMax = 1
    /\ env \in {e \in EnvAll : e.GEMINI_API_KEY /\ e.GROQ_API_KEY
                               /\ e.OPENROUTER_API_KEY /\ e.GOOGLE_CSE
                               /\ e.GOOGLE_SHEET_ID}
NextToken ==
    \/ \E c \in 1..MaxCallers : CallerEnter(c) \/ CallerAnswered(c) \/ CallerResume(c)
    \/ Tick
SpecToken == InitToken /\ [][NextToken]_vars

\* ================================================================ the API
Routes == {"GET /api/events", "GET /api/notices", "POST /api/register",
           "POST /api/register/cancel", "POST /api/events/admin",
           "PUT /api/events/admin/:id", "DELETE /api/events/admin/:id",
           "POST /api/notices/admin", "PUT /api/notices/admin/:id",
           "DELETE /api/notices/admin/:id", "POST /api/chat/feedback"}
AdminRoutes == {"POST /api/events/admin", "PUT /api/events/admin/:id",
                "DELETE /api/events/admin/:id", "POST /api/notices/admin",
                "PUT /api/notices/admin/:id", "DELETE /api/notices/admin/:id"}
\* events.ts:162-202, notices 193-233: placeholders answering 501
UnimplementedRoutes == {"PUT /api/events/admin/:id", "DELETE /api/events/admin/:id",
                        "PUT /api/notices/admin/:id", "DELETE /api/notices/admin/:id"}

\* the rate-limit middleware of each router, built with its own AuthService
RouteLimit(route) ==
    CASE route \in {"POST /api/register", "POST /api/register/cancel"} ->
            RegisterMaxRequests
      [] route = "POST /api/chat/feedback" -> ChatMaxRequests
      [] OTHER -> ReadMaxRequests
RouteAdmits(route, t) ==
    checkRateLimit(EmptyStore, "ip1", RouteLimit(route), WindowMs, t).ok

\* String.prototype.trim and toLowerCase on a sequence of characters
RECURSIVE TrimLeft(_)
TrimLeft(text) ==
    IF text # <<>> /\ Head(text) = " " THEN TrimLeft(Tail(text)) ELSE text
RECURSIVE TrimRight(_)
TrimRight(text) ==
    IF text # <<>> /\ text[Len(text)] = " "
    THEN TrimRight(SubSeq(text, 1, Len(text) - 1)) ELSE text
Trim(text) == TrimRight(TrimLeft(text))
LowerChar(c) == CASE c = "A" -> "a" [] c = "B" -> "b" [] c = "C" -> "c" [] OTHER -> c
ToLowerCase(text) == [k \in 1..Len(text) |-> LowerChar(text[k])]

\* register.ts:22-52  the status the validation answers with, 0 when it passes
RegisterValidation(body) ==
    IF body.event_id = <<>> \/ Trim(body.name) = <<>> \/ Trim(body.email) = <<>> THEN 400
    ELSE IF ~validateEmail(body.email) THEN 400
    ELSE IF Len(Trim(body.name)) < 2 THEN 400
    ELSE 0

\* register.ts:80-88  the registration object
RegistrationOfBodyAsTyped(body) ==
    [NoRegistration EXCEPT !.event_id = body.event_id, !.name = Trim(body.name),
                           !.email = Trim(body.email)]
RegistrationOfBody(body) ==
    [NoRegistration EXCEPT !.event_id = body.event_id, !.name = Trim(body.name),
                           !.email = ToLowerCase(Trim(body.email))]

\* register.ts:59  events.find(e => e.id === body.event_id): its position, 0 if none
RECURSIVE FindEvent(_, _, _)
FindEvent(events, id, k) ==
    IF k > Len(events) THEN 0
    ELSE IF events[k].id = id THEN k
    ELSE FindEvent(events, id, k + 1)

\* register.ts:65-77  the event has not started and now is before its
\* deadline of one hour before the start
RegistrationOpenUntilStart(date, t) == ~(date <= t)
RegistrationOpen(date, t) == ~(date <= t) /\ ~(t >= date - HourTicks)

\* register.ts:91-102  the scan of the rows read from the registrations sheet
IsDuplicate(rows, registration) ==
    /\ Len(rows) > 1
    /\ \E i \in 1..(Len(rows) - 1) :
          LET row == rows[i + 1]
          IN  /\ Len(row) >= 4
              /\ row[2] = registration.event_id
              /\ row[4] = registration.email

\* events.ts:105-129  validation of a new event at time t
EventValidation(body, t) ==
    IF body.title = "" \/ body.date_iso = 0 THEN 400
    ELSE IF ~ValidDate(body.date_iso) THEN 400
    ELSE IF body.date_iso < t THEN 400
    ELSE 0
\* events.ts:134-141
EventOfBody(body) ==
    [title |-> body.title, description |-> "d", date_iso |-> body.date_iso,
     location |-> "hall", rsvp_form |-> "", visible |-> body.visible]
\* notices 136-164  validation of a new notice
AllowedCategories == {"General", "Academic", "Events", "Placements", "Admissions",
                      "Sports", "Clubs", "Facilities", "Announcements", "Urgent"}
NoticeValidation(body) ==
    IF body.title = "" \/ body.category = "" THEN 400
    ELSE IF body.category \notin AllowedCategories THEN 400
    ELSE 0
\* notices 166-172
NoticeOfBody(body, t) ==
    [title |-> body.title, body_html |-> "b", category |-> body.category,
     posted_at_iso |-> IF body.date_iso # 0 THEN body.date_iso ELSE t,
     visible |-> body.visible]
\* chat.ts:144-161  the feedback entry
FeedbackLog(body, t) ==
    [timestamp |-> t, user_email |-> <<>>, user_name |-> "Feedback",
     question |-> body.rating, model_used |-> "feedback", status |-> "success",
     raw_response |-> "", final_answer_html |-> <<"No additional feedback">>,
     source_links |-> <<"Rating">>, error |-> ""]

\* the pair (event_id, email) of a registration, the email without regard to
\* case and surrounding blanks
PairOf(event_id, email) == <<event_id, ToLowerCase(Trim(email))>>

Respond(a, status, error, success) ==
    [a EXCEPT !.pc = "responded", !.step = "none", !.status = status,
              !.error = error, !.success = success]
Await(a, step) == [a EXCEPT !.pc = "await", !.step = step, !.calls = @ + 1]

\* the handler of `route` from its middleware to its first store call
Arrive(route, input, t) ==
    LET a == [NoApi EXCEPT !.route = route, !.input = input, !.arrivedAt = t,
                           !.wasAccepted = /\ route = "POST /api/register"
                                           /\ PairOf(input.event_id, input.email)
                                                  \in accepted]
    IN  IF ~RouteAdmits(route, t) THEN Respond(a, 429, "Too many requests", FALSE)
        ELSE IF route \in AdminRoutes /\ ~requireAdmin(adminKey, input.bearer, t)
        THEN Respond(a, 401, "Authentication required", FALSE)
        ELSE IF route \in UnimplementedRoutes
        THEN Respond(a, 501, "not yet implemented", FALSE)
        ELSE IF route = "POST /api/register/cancel"
        THEN IF Trim(input.email) = <<>> \/ input.event_id = <<>>
                \/ ~validateEmail(input.email)
             THEN Respond(a, 400, "Validation failed", FALSE)
             ELSE Respond(a, 200, "Cancellation feature not yet implemented", FALSE)
        ELSE IF route = "POST /api/register"
        THEN IF RegisterValidation(input) # 0
             THEN Respond(a, 400, "Validation failed", FALSE)
             ELSE Await([a EXCEPT !.registration = RegistrationOfBody(input)], "events")
        ELSE IF route = "POST /api/events/admin"
        THEN IF EventValidation(input, t) # 0
             THEN Respond(a, 400, "Validation failed", FALSE)
             ELSE Await(a, "create")
        ELSE IF route = "POST /api/notices/admin"
        THEN IF NoticeValidation(input) # 0
             THEN Respond(a, 400, "Validation failed", FALSE)
             ELSE Await(a, "create")
        ELSE IF route = "POST /api/chat/feedback"
        THEN IF input.rating < 1 \/ input.rating > 5
             THEN Respond(a, 400, "Rating must be between 1 and 5", FALSE)
             ELSE Await(a, "create")
        ELSE Await(a, "list")

\* the outcomes a store call of a fresh GoogleSheetsService can have
\* (sheets.ts:136-140 no sheet id, 19-53 no access token, 152-155 store error)
StoreOutcomes ==
    IF ~env.GOOGLE_SHEET_ID THEN {"config_error"}
    ELSE IF env.SERVICE_ACCOUNT # "valid" THEN {"auth_error"}
    ELSE {"ok", "auth_error", "store_error"}

\* the table a mutation is written to and the row it appends
MutationSheet(a) ==
    CASE a.route = "POST /api/register" -> "registrations"
      [] a.route = "POST /api/events/admin" -> "events"
      [] a.route = "POST /api/notices/admin" -> "notices"
      [] OTHER -> "chat_logs"
MutationRow(a, t, suffix) ==
    CASE a.route = "POST /api/register" ->
            RegistrationRow(GeneratedId("reg", t, suffix), a.registration, t)
      [] a.route = "POST /api/events/admin" ->
            EventRow(GeneratedId("event", t, suffix), EventOfBody(a.input), t)
      [] a.route = "POST /api/notices/admin" ->
            NoticeRow(GeneratedId("notice", t, suffix),
                      NoticeOfBody(a.input, a.arrivedAt), t)
      [] OTHER -> ChatLogRow(FeedbackLog(a.input, a.arrivedAt))

\* register.ts:105-115  the notification sends the handler starts once its
\* append was answered `write`: the confirmation and the admin notification
NotificationsStartedAlways(route, write) ==
    IF route = "POST /api/register" THEN 2 ELSE 0
NotificationsStarted(route, write) ==
    IF route = "POST /api/register" /\ write = "ok" THEN 2 ELSE 0

\* the handler of a.route from the answer `o` of the store call it awaits at
\* time t to its next store call or its response
Settle(a, o, t, tbl, acc, suffix) ==
    LET same == [tables |-> tbl, accepted |-> acc]
        done == [a EXCEPT !.failed = a.failed \/ (o # "ok")]
    IN  IF a.step = "list"
        THEN \* events.ts:17-36, notices 17-36: the readers never throw
             LET items == IF a.route = "GET /api/events"
                          THEN getEvents(o, tbl.events, t)
                          ELSE getNotices(o, tbl.notices, t)
             IN  [api |-> [Respond(done, 200, "", TRUE) EXCEPT !.count = Len(items)]]
                 @@ same
        ELSE IF a.step = "events"
        THEN \* register.ts:57-77
             LET events == getEvents(o, tbl.events, t)
                 k == FindEvent(events, a.input.event_id, 1)
                 looked == [done EXCEPT !.lookup = o, !.lookupAt = t, !.found = k > 0]
             IN  [api |-> IF k = 0
                          THEN Respond(looked, 404, "Event not found", FALSE)
                          ELSE IF ~RegistrationOpen(events[k].date_iso, t)
                          THEN Respond(looked, 400, "Registration closed", FALSE)
                          ELSE Await(looked, "scan")] @@ same
        ELSE IF a.step = "scan"
        THEN \* register.ts:91-102, catch 130-136
             LET scanned == [done EXCEPT !.scan = o]
             IN  [api |-> IF o # "ok"
                          THEN Respond(scanned, 500, "Registration failed", FALSE)
                          ELSE IF IsDuplicate(tbl.registrations, a.registration)
                          THEN Respond(scanned, 409, "already registered", FALSE)
                          ELSE Await(scanned, "append")] @@ same
        ELSE \* register.ts:105-128, events.ts:143-159, notices 174-190,
             \* chat.ts:163-177: the single append of a mutation
             LET written == [done EXCEPT !.write = o,
                                         !.sends = NotificationsStarted(a.route, o),
                                         !.pending = NotificationsStarted(a.route, o)]
             IN  IF o # "ok"
                 THEN [api |-> Respond(written, 500, "Failed", FALSE)] @@ same
                 ELSE [api |-> [Respond(written, 200, "", TRUE)
                                    EXCEPT !.appended = @ + 1],
                       tables |-> StoreEffect(tbl, "appendRow", MutationSheet(a), 0,
                                              MutationRow(a, t, suffix)),
                       accepted |-> IF a.route = "POST /api/register"
                                    THEN acc \cup {PairOf(a.registration.event_id,
                                                          a.registration.email)}
                                    ELSE acc]

\* the request bodies the model sends
LowerEmail == <<"a", "@", "b", ".", "c">>
UpperEmail == <<"A", "@", "b", ".", "c">>
RegisterBody(id, name, email) ==
    [NoApiInput EXCEPT !.event_id = id, !.name = name, !.email = email]
RegisterBodies ==
    {RegisterBody(<<"row", 1>>, <<"a", "s">>, LowerEmail),
     RegisterBody(<<"row", 1>>, <<"a", "s">>, UpperEmail),
     RegisterBody(<<"row", 1>>, <<" ", "x">>, LowerEmail),
     RegisterBody(<<"row", 1>>, <<"a", "s">>, <<"a", "b">>),
     RegisterBody(<<"row", 2>>, <<"a", "s">>, LowerEmail),
     RegisterBody(<<"row", 3>>, <<"a", "s">>, LowerEmail),
     RegisterBody(<<>>, <<"a", "s">>, LowerEmail)}
AdminBearers == {NoBearer, TextBearer("secret")}
ApiInputs(route) ==
    CASE route = "POST /api/register" -> RegisterBodies
      [] route = "POST /api/register/cancel" ->
            {RegisterBody(<<"row", 1>>, <<"a", "s">>, LowerEmail),
             RegisterBody(<<>>, <<"a", "s">>, LowerEmail)}
      [] route = "POST /api/events/admin" ->
            {[NoApiInput EXCEPT !.title = "new", !.bearer = b,
                                !.date_iso = HourTicks + SafetyMargin + 3] :
                b \in AdminBearers}
            \cup {[NoApiInput EXCEPT !.title = "new", !.date_iso = date,
                                     !.bearer = TextBearer("secret")] :
                     date \in {1, BadDate}}
      [] route = "POST /api/notices/admin" ->
            {[NoApiInput EXCEPT !.title = "new", !.category = category,
                                !.bearer = TextBearer("secret")] :
                category \in {"Academic", "Other"}}
      [] route = "PUT /api/events/admin/:id" ->
            {[NoApiInput EXCEPT !.bearer = b] : b \in AdminBearers}
      [] route \in UnimplementedRoutes ->
            {[NoApiInput EXCEPT !.bearer = TextBearer("secret")]}
      [] route = "POST /api/chat/feedback" ->
            {[NoApiInput EXCEPT !.rating = r] : r \in {0, 5}}
      [] OTHER -> {NoApiInput}

\* a request arrives and runs to its first store call or its response
ApiArrive ==
    /\ api.pc \in {"idle", "responded"}
    /\ handled < MaxApiRequests
    /\ handled' = handled + 1
    /\ \E route \in Routes : \E input \in ApiInputs(route) :
         api' = Arrive(route, input, now)
    /\ UNCHANGED <<now, env, sheetsVars, limiterVars, chatVars, gateVars, authVars,
                   repoVars, accepted, concVars>>

\* the store answers the call the request awaits
ApiSettle ==
    /\ api.pc = "await"
    /\ \E o \in StoreOutcomes, suffix \in RandomSuffixes :
         LET r == Settle(api, o, now, tables, accepted, suffix)
         IN  /\ api' = r.api
             /\ tables' = r.tables
             /\ accepted' = r.accepted
    /\ UNCHANGED <<now, env, accessToken, tokenExpiry, call, tok, issued, grant,
                   services, ncalls, limiterVars, chatVars, gateVars, authVars,
                   repoVars, handled, concVars>>

\* email.ts:12-46  a notification send ends: sendEmail resolves to true or
\* false and the handler's .catch has nothing to do with the response
ApiNotified ==
    /\ api.pending > 0
    /\ \E sent \in BOOLEAN :
         api' = [api EXCEPT !.pending = @ - 1, !.sendFailed = @ \/ ~sent]
    /\ UNCHANGED <<now, env, sheetsVars, limiterVars, chatVars, gateVars, authVars,
                   repoVars, handled, accepted, concVars>>

\* the sheets of a deployment: an open event, a hidden one and one starting
\* within the hour
ApiEvents ==
    <<EventsHeader,
      <<<<"row", 1>>, "open", "d", HourTicks + SafetyMargin + 2, "hall", "", "TRUE",
        SafetyMargin>>,
      <<<<"row", 2>>, "hidden", "d", HourTicks + SafetyMargin + 2, "hall", "",
        "FALSE", SafetyMargin>>,
      <<<<"row", 3>>, "soon", "d", SafetyMargin + 2, "hall", "", "TRUE",
        SafetyMargin>>>>
InitApi ==
    /\ InitCore
    /\ tables = [s \in Sheets |-> IF s = "events" THEN ApiEvents ELSE <<HeaderOf(s)>>]
    /\ adminKey = "secret"
    /\ sessions = {}
    /\ limMax = 1
    /\ env \in {e \in EnvAll : e.GEMINI_API_KEY /\ e.GROQ_API_KEY
                               /\ e.OPENROUTER_API_KEY /\ e.GOOGLE_CSE
                               /\ e.SERVICE_ACCOUNT = "valid"}
NextApi == ApiArrive \/ ApiSettle \/ ApiNotified \/ Tick
SpecApi == InitApi /\ [][NextApi]_vars

\* ---- POST /api/register requests handled concurrently: each request is
\* suspended at its store calls, and the others run in between
RaceArrive(r) ==
    /\ registrants[r].pc = "idle"
    /\ \E email \in {LowerEmail, UpperEmail, <<"z", "@", "b", ".", "c">>} :
         registrants' = [registrants EXCEPT ![r] =
             Arrive("POST /api/register",
                    RegisterBody(<<"row", 1>>, <<"a", "s">>, email), now)]
    /\ UNCHANGED <<now, env, sheetsVars, limiterVars, chatVars, gateVars, authVars,
                   repoVars, apiVars, callers>>
RaceSettle(r) ==
    /\ registrants[r].pc = "await"
    /\ \E o \in StoreOutcomes, suffix \in RandomSuffixes :
         LET res == Settle(registrants[r], o, now, tables, accepted, suffix)
         IN  /\ registrants' = [registrants EXCEPT ![r] = res.api]
             /\ tables' = res.tables
             /\ accepted' = res.accepted
    /\ UNCHANGED <<now, env, accessToken, tokenExpiry, call, tok, issued, grant,
                   services, ncalls, limiterVars, chatVars, gateVars, authVars,
                   repoVars, api, handled, callers>>
InitRace ==
    /\ InitApi
    /\ env.GOOGLE_SHEET_ID
NextRace == \E r \in 1..MaxRegistrants : RaceArrive(r) \/ RaceSettle(r)
SpecRace == InitRace /\ [][NextRace]_vars

\* ============================================================ properties
\* a chat request that got past the middleware and the validation
Admitted == req.question # 0
\* answer() has returned and the handler has responded
Answered == Admitted /\ req.pc = "responded"

\* C1: answer() calls the providers in the order Gemini, Groq, OpenRouter; it
\* calls a provider only after every provider before it returned nothing
\* usable, stops at the first usable value, returns that value with that
\* provider's identifier, and gives up only after all three were unusable.
FallbackOrder ==
    LET n == Len(req.asked)
        m == Len(req.returned)
        ended == req.pc \in {"respond", "responded"}
    IN  /\ n <= 3
        /\ req.asked = SubSeq(Providers, 1, n)
        /\ m <= n
        /\ \A k \in 1..m : k < n => req.returned[k] = ""
        /\ \A k \in 1..m : req.returned[k] # "" => (k = n /\ ended)
        /\ (Admitted /\ ended) =>
              /\ n >= 1
              /\ m = n
              /\ req.returned[n] = "" => n = 3
        /\ Answered =>
              (req.returned[n] # "" =>
                  req.result = [response |-> req.returned[n],
                                model |-> ModelId(Providers[n])])
\* Gemini was requested and gave nothing usable, Groq answered, and
\* OpenRouter, although configured, was not called
FallbackOrderWitness ==
    /\ Answered
    /\ req.sent = <<"gemini", "groq">>
    /\ req.asked = <<"gemini", "groq">>
    /\ req.result.model = ModelId("groq")
    /\ env.OPENROUTER_API_KEY

\* C2: when none of the three providers yields a usable answer, answer()
\* returns the fixed fallback text with model "none", and the chat response
\* is a success carrying model_used = "none".
ExhaustedIsSoftFailure ==
    (Answered /\ \A k \in 1..Len(req.returned) : req.returned[k] = "") =>
        /\ req.result = [response |-> ErrorMessage, model |-> "none"]
        /\ req.status = 200
        /\ req.body.model_used = "none"
\* all three providers were requested and all three failed
ExhaustedIsSoftFailureWitness ==
    /\ Answered
    /\ req.sent = Providers
    /\ req.returned = <<"", "", "">>

\* C3: a chat request that passed rate limiting and validation is answered
\* 200 with html, model_used and timestamp, whatever the search, the three
\* providers and the chat-log write did.
ChatAlwaysAnswers ==
    Admitted =>
        /\ req.status \in {0, 200}
        /\ req.status = 200 <=> req.pc = "responded"
        /\ req.pc = "responded" =>
              /\ req.body.error = ""
              /\ req.body.html # <<>>
              /\ req.body.model_used # ""
              /\ req.body.timestamp # 0
\* the search failed or found nothing, every provider failed and the
\* chat-log append failed, and the request was answered
ChatAlwaysAnswersWitness ==
    /\ Answered
    /\ req.searched
    /\ req.searchResults = <<>>
    /\ req.sent = Providers
    /\ req.result.model = "none"
    /\ call.pc = "done"
    /\ call.outcome = "store_error"

\* C4: of the requests one identity sends to the chat endpoint within one
\* 60-second window, counted from its first request of the window, at most 5
\* are admitted and every further one is answered 429.
ChatWindowLimit ==
    \A ip \in Identities :
        /\ gate[ip].admitted <= ChatMaxRequests
        /\ (gate[ip].seen > ChatMaxRequests /\ gateLast.ip = ip) => gateLast.status = 429

\* C5: on one AuthService instance called with max N, a call is allowed
\* exactly when it is among the first N calls its identity made in the
\* current window; the window is opened by the identity's first call, or by
\* its first call made after the reset time of the window before, so that
\* rejected calls do not move it, and only the identity's own calls count.
CallsOf(identifier) == SelectSeq(limLog, LAMBDA e : e[1] = identifier)
RECURSIVE Opener(_, _)
Opener(calls, i) ==
    IF i = 1 THEN 1
    ELSE LET o == Opener(calls, i - 1)
         IN  IF calls[i][2] > calls[o][2] + WindowMs THEN i ELSE o
RateLimiterWindow ==
    \A identifier \in Identities :
        LET calls == CallsOf(identifier)
        IN  \A i \in 1..Len(calls) :
                calls[i][3] <=> (i - Opener(calls, i) + 1 <= limMax)
\* an identity was allowed, rejected twice, and allowed again after the reset,
\* while another identity was calling too
RateLimiterWindowWitness ==
    \E identifier \in Identities :
        LET calls == CallsOf(identifier)
        IN  /\ Len(calls) < Len(limLog)
            /\ \E i, j, k \in 1..Len(calls) :
                  /\ i < j /\ j < k
                  /\ ~calls[i][3] /\ ~calls[j][3] /\ calls[k][3]

\* C6: on one instance, a getAccessToken call made after a successful one
\* returns the cached token without any exchange request while the cached
\* expiry is still ahead, and otherwise sends exactly one exchange request
\* whose answer replaces both the cached token and the cached expiry.
TokenCacheReuse ==
    (tok.state # "none" /\ tok.startToken # 0) =>
        IF tok.startNow < tok.startExpiry
        THEN /\ tok.state = "returned"
             /\ tok.value = tok.startToken
             /\ tok.requests = 0
             /\ accessToken = tok.startToken
             /\ tokenExpiry = tok.startExpiry
        ELSE /\ tok.requests = 1
             /\ tok.state = "returned" =>
                   /\ tok.value # tok.startToken
                   /\ accessToken = tok.value
                   /\ grant.at = now
                   /\ tokenExpiry = now + grant.life - SafetyMargin
\* a call found the cached expiry in the past and refreshed the credential
TokenCacheReuseWitness ==
    /\ tok.state = "returned"
    /\ tok.startToken # 0
    /\ tok.startExpiry < tok.startNow
    /\ tok.requests = 1
    /\ tok.startNow < now

\* C7: every token getAccessToken returns is returned strictly before
\* (exchange time + declared lifetime - 60 s), for every declared lifetime.
TokenReturnedBeforeMargin ==
    tok.state = "returned" =>
        now < grant.at + grant.life - SafetyMargin

\* C8: over the requests of one process, a token exchange is requested only
\* when the process holds no credential or the one obtained last has expired.
ExchangeOnlyWithoutValidCredential ==
    tok.requests >= 1 => ~tok.procValid

\* C9: a store call whose bearer credential the store rejected has made
\* exactly one re-authentication: one more exchange and one retry of the
\* store request, so two store requests in all.
OneReauthenticationOnRejection ==
    (call.pc = "done" /\ call.rejected) =>
        /\ call.storeRequests = 2
        /\ call.exchanges >= 1

\* C10: with the service account absent, or the exchange rejected by the
\* token endpoint, getAccessToken throws after at most one exchange request
\* (none when the account is absent) and the cached token and expiry are
\* what they were when it was called.
TokenFailureKeepsCache ==
    /\ (tok.state # "none" /\ env.SERVICE_ACCOUNT = "absent") => tok.state = "threw"
    /\ tok.answer = "rejected" => tok.state = "threw"
    /\ tok.state = "threw" =>
          /\ tok.requests <= 1
          /\ env.SERVICE_ACCOUNT = "absent" => tok.requests = 0
          /\ tok.answer = "rejected" => tok.requests = 1
          /\ accessToken = tok.startToken
          /\ tokenExpiry = tok.startExpiry
\* the endpoint rejected the refresh of an expired cached credential
TokenFailureKeepsCacheWitness ==
    /\ tok.state = "threw"
    /\ tok.answer = "rejected"
    /\ tok.startToken # 0

\* C11: without GOOGLE_SHEET_ID, appendRow, readRange and updateRange each
\* fail with the configuration error before any token exchange and any store
\* request; the token cache and every table stay as they were.
SheetIdRequired ==
    ~env.GOOGLE_SHEET_ID =>
        /\ call.pc \in {"idle", "done"}
        /\ call.op # "none" =>
              /\ call.outcome = "config_error"
              /\ call.exchanges = 0
              /\ call.storeRequests = 0
        /\ tok = NoTok
        /\ issued = 0
        /\ accessToken = 0
        /\ tokenExpiry = 0
        /\ \A s \in Sheets : tables[s] = <<HeaderOf(s)>>
\* a second call, an updateRange, failed on the missing sheet id although the
\* service account is configured
SheetIdRequiredWitness ==
    /\ ~env.GOOGLE_SHEET_ID
    /\ env.SERVICE_ACCOUNT = "valid"
    /\ ncalls >= 2
    /\ call.op = "updateRange"
    /\ call.outcome = "config_error"

ChatAcceptsLongestWitness ==
    /\ Answered
    /\ req.input.question.trimmed = MaxQuestionLength
    /\ req.input.question.raw > MaxQuestionLength

\* C20: getIFHEContext never raises and returns the empty list, without a
\* request when the search keys are missing, and after a request that found
\* no items or failed; answer() then goes on to the providers with that
\* empty context.
ContextIsOptional ==
    Admitted =>
        /\ ~env.GOOGLE_CSE => (~req.searched /\ req.searchResults = <<>>)
        /\ req.searchOutcome \in {"noitems", "fail"} => req.searchResults = <<>>
        /\ req.searchOutcome = "items" => req.searchResults # <<>>
        /\ (req.searchOutcome # "" \/ (req.pc # "context" /\ ~env.GOOGLE_CSE)) =>
              /\ req.stage >= 1
              /\ req.pc \in {"ask", "wait", "respond", "responded"}
        /\ req.pc \in {"respond", "responded"} => Len(req.asked) >= 1
\* the search request failed and a provider then answered the question
ContextIsOptionalWitness ==
    /\ Answered
    /\ req.searchOutcome = "fail"
    /\ req.searchResults = <<>>
    /\ req.result.model = ModelId("gemini")

\* C15: a handler behind requireAdmin runs only when the bearer value is the
\* configured ADMIN_API_KEY, or a session payload that an admin login issued
\* and whose expiry is not in the past; every other request is answered 401
\* and the handler does not run.
AdminOnlyWithIssuedCredential ==
    adm.route = "guarded" =>
        LET b == adm.bearer
            entitled == \/ (adminKey # "" /\ b = TextBearer(adminKey))
                        \/ (b \in sessions /\ b.exp >= adm.at)
        IN  /\ adm.ran <=> entitled
            /\ adm.status = 401 <=> ~adm.ran

\* C17: for every content of the events sheet and every time, a getEvents
\* whose read succeeds returns exactly the non-header rows whose visible cell
\* is TRUE and whose date is not earlier than now, in ascending date order:
\* no hidden event, no past event and no event whose date cannot be parsed.
TitleOf(row) == IF Len(row) >= 2 THEN row[2] ELSE ""
RowQualifies(row, t) ==
    /\ Len(row) >= 7
    /\ row[7] = "TRUE"
    /\ row[4] > 0
    /\ row[4] >= t
EventsVisibleFutureSorted ==
    (listed.kind = "events" /\ listed.ok) =>
        LET rows == tables.events
            items == listed.items
            t == listed.at
        IN  /\ \A k \in 1..Len(items) :
                  /\ items[k].visible
                  /\ items[k].date_iso >= t
                  /\ \E i \in 2..Len(rows) :
                        /\ RowQualifies(rows[i], t)
                        /\ rows[i][2] = items[k].title
                        /\ rows[i][4] = items[k].date_iso
            /\ \A i \in 2..Len(rows) :
                  Cardinality({k \in 1..Len(items) : items[k].title = TitleOf(rows[i])})
                  = IF RowQualifies(rows[i], t)
                    THEN Cardinality({j \in 2..Len(rows) : rows[j] = rows[i]})
                    ELSE 0
            /\ \A k \in 1..(Len(items) - 1) : items[k].date_iso <= items[k + 1].date_iso
\* a sheet holding a later event before an earlier one, with a hidden one:
\* the two visible events were returned earliest first
EventsVisibleFutureSortedWitness ==
    /\ listed.kind = "events"
    /\ listed.ok
    /\ Len(listed.items) = 2
    /\ Len(tables.events) = 4
    /\ Len(tables.events[2]) >= 2
    /\ tables.events[2][2] = "first"
    /\ listed.items[1].title = "second"
    /\ listed.items[2].title = "first"

\* C16 (as stated): every record passed to createEvent, createNotice,
\* addRegistration or logChat is found when the sheet is read back through
\* its list path, with every supplied field as supplied and with a
\* non-empty generated id and timestamp.
SuppliedFields(kind) ==
    CASE kind = "events" -> {"title", "description", "date_iso", "location",
                             "rsvp_form", "visible"}
      [] kind = "notices" -> {"title", "body_html", "category", "posted_at_iso",
                              "visible"}
      [] kind = "registrations" -> {"event_id", "name", "email", "phone", "department",
                                    "year", "additional_info"}
      [] kind = "chat_logs" -> {"timestamp", "user_email", "user_name", "question",
                                "model_used",
                                "status", "raw_response", "final_answer_html",
                                "source_links", "error"}
Generated(kind, item) ==
    CASE kind = "events" -> item.id # <<>> /\ item.created_at # 0
      [] kind = "notices" -> item.id # <<>> /\ item.created_at # 0
      [] kind = "registrations" -> item.id # <<>> /\ item.registered_at # 0
      [] kind = "chat_logs" -> TRUE
ReadBack == listed.ok /\ listed.kind = created.kind
ListKeeps(kind, record, t) ==
    CASE kind = "events" -> record.visible /\ record.date_iso > 0 /\ record.date_iso >= t
      [] kind = "notices" -> record.visible
      [] kind = "chat_logs" -> listed.limit >= 1
      [] OTHER -> TRUE
SuppliedEmpty(kind, f, value) ==
    /\ kind = "notices"
    /\ \/ (f = "category" /\ value = "")
       \/ (f = "posted_at_iso" /\ value = 0)
VisibleEventDates(id) ==
    {tables.events[k][4] : k \in {j \in 2..Len(tables.events) :
        /\ Len(tables.events[j]) >= 7
        /\ tables.events[j][1] = id
        /\ tables.events[j][7] = "TRUE"
        /\ ValidDate(tables.events[j][4])}}
RegisterResponded ==
    /\ api.route = "POST /api/register"
    /\ api.pc = "responded"

\* C12: a valid, non-duplicate registration for a visible event whose store
\* calls succeed is accepted exactly when the handler's clock is strictly
\* before the event's date minus one hour; at or after that deadline it is
\* rejected and no row is appended.
RegistrationCutoff ==
    RegisterResponded /\ api.calls >= 1 /\ api.lookup = "ok" =>
        \A date \in VisibleEventDates(api.input.event_id) :
            /\ api.lookupAt >= date - HourTicks =>
                  /\ api.status \in {400, 404}
                  /\ ~api.success
                  /\ api.appended = 0
                  /\ api.write = "none"
            /\ (api.lookupAt < date - HourTicks /\ ~api.wasAccepted /\ ~api.failed) =>
                  /\ api.status = 200
                  /\ api.success
                  /\ api.appended = 1
RegistrationCutoffWitness ==
    /\ RegisterResponded
    /\ accepted # {}
    /\ api.found
    /\ api.status = 400
    /\ ~api.failed
    /\ \E date \in VisibleEventDates(api.input.event_id) :
          api.lookupAt = date - HourTicks


StoreFailureAnswered500 ==
    (/\ api.pc = "responded"
     /\ api.route \in {"GET /api/events", "GET /api/notices", "POST /api/register"}
     /\ api.failed) =>
        /\ api.status = 500
        /\ api.error # ""
        /\ ~api.success


\* the requests that write to the store
MutationRoutes == {"POST /api/register", "POST /api/events/admin",
                   "POST /api/notices/admin", "POST /api/chat/feedback"}
Extends(later, earlier) ==
    /\ Len(later) >= Len(earlier)
    /\ SubSeq(later, 1, Len(earlier)) = earlier
\* the step is the successful append of the mutation in flight
IsAppendStep ==
    /\ api.pc = "await"
    /\ api.route \in MutationRoutes
    /\ api.step \in {"append", "create"}
    /\ api'.pc = "responded"
    /\ api'.write = "ok"
    /\ api'.appended = api.appended + 1

\* C18: in every step of the API every table is an extension of what it
\* was; a table grows only by the single append of a mutation, by exactly
\* one row and in the mutation's own table; an append that fails adds no
\* row; PUT and DELETE on events and notices and POST /api/register/cancel
\* make no store call and leave every table unchanged.
TablesAppendOnly ==
    [][/\ \A s \in Sheets : Extends(tables'[s], tables[s])
       /\ tables' # tables =>
             /\ IsAppendStep
             /\ \A s \in Sheets :
                   Len(tables'[s]) = Len(tables[s])
                                     + (IF s = MutationSheet(api) THEN 1 ELSE 0)
       /\ (api'.pc = "responded" /\ api'.appended = 0) => tables' = tables
       /\ api'.appended <= 1
       /\ (api'.pc = "responded" /\ api'.route \in MutationRoutes
           /\ api'.status = 200) => api'.appended = 1
       /\ (api'.route \in UnimplementedRoutes \cup {"POST /api/register/cancel"}) =>
             /\ api'.calls = 0
             /\ tables' = tables]_vars
TablesAppendOnlyWitness ==
    /\ api.pc = "responded"
    /\ api.route \in MutationRoutes
    /\ api.write \notin {"none", "ok"}
    /\ api.appended = 0
    /\ \E s \in Sheets \ {"events"} : Len(tables[s]) = 2


\* C22: within one answer() call at most one askX call has started and not
\* returned, and then exactly one request (if the provider has its key) is
\* in flight; no provider is called twice; the context retrieval has
\* returned before the first askX call; and every askX call is given the
\* question of the request and the context that was retrieved.
ProvidersOneAtATime ==
    LET n == Len(req.asked)
        pending == n - Len(req.returned)
    IN  /\ pending \in {0, 1}
        /\ pending = 1 <=> req.pc = "wait"
        /\ req.pc = "wait" => req.inflight = req.asked[n]
        /\ req.pc # "wait" => req.inflight \in {"", "search"}
        /\ req.inflight = "search" => req.pc = "search"
        /\ Cardinality({req.asked[k] : k \in 1..n}) = n
        /\ n >= 1 =>
              /\ req.inflight # "search"
              /\ req.searched => req.searchOutcome # ""
        /\ Len(req.args) = n
        /\ \A k \in 1..n : req.args[k] = <<req.question, req.searchResults>>
ProvidersOneAtATimeWitness ==
    /\ req.pc = "wait"
    /\ req.asked = <<"gemini", "groq", "openrouter">>
    /\ req.sent = <<"gemini", "openrouter">>
    /\ req.searchOutcome = "items"
    /\ req.args[3][2] # <<>>


\* C21: the steps of the chat-log append (token exchange, store answer)
\* leave the response of the request untouched, and once the append has
\* ended, with whatever outcome, the response is the status and body the
\* handler derived from the value of answer().
ChatLogFailureInvisible ==
    [][/\ (Answered /\ call' # call) => req' = req
       /\ (req'.question # 0 /\ req'.pc = "responded" /\ call'.pc = "done") =>
             LET out == ChatOutcome(req', req'.result, req'.body.timestamp)
             IN  /\ req'.status = out.status
                 /\ req'.body = out.body]_vars
ChatLogFailureInvisibleWitness ==
    /\ Answered
    /\ call.pc = "done"
    /\ call.sheet = "chat_logs"
    /\ call.outcome = "auth_error"
    /\ req.result.model = ModelId("gemini")
    /\ Len(tables.chat_logs) = 1


\* C23: when the response of a chat request is returned, no outbound call
\* of the request (search, provider, token exchange, store write) is still
\* in flight.
OutboundCallsCompleteBeforeResponse ==
    req.pc = "responded" =>
        /\ req.inflight = ""
        /\ call.pc \in {"idle", "done"}


\* C24: with getAccessToken calls interleaved on one instance, the cached
\* token and the cached expiry are the pair one caller wrote from its own
\* exchange response, and every caller that returned got a token a
\* successful exchange had returned.
TokenCacheNeverTorn ==
    /\ (accessToken = 0 <=> tokenExpiry = 0)
    /\ accessToken # 0 =>
          \E c \in 1..MaxCallers :
              /\ callers[c].pc = "done"
              /\ callers[c].ok
              /\ callers[c].token = accessToken
              /\ callers[c].wroteToken = accessToken
              /\ callers[c].wroteExpiry = tokenExpiry
    /\ \A c \in 1..MaxCallers :
          callers[c].pc = "done" =>
              /\ callers[c].value \in 1..issued
              /\ callers[c].ok => callers[c].value = callers[c].token
\* two exchanges overlapped: both callers were answered before either
\* resumed, and the cache holds the pair of the one that resumed last
TokenCacheNeverTornWitness ==
    /\ issued = 2
    /\ callers[1].pc = "done" /\ callers[1].ok
    /\ callers[2].pc = "done" /\ callers[2].ok
    /\ callers[1].wroteExpiry # callers[2].wroteExpiry
    /\ accessToken = callers[1].token
    /\ callers[1].token = 1


\* C25: for a chat_logs table of a header row and k data rows, getChatLogs(N)
\* returns the last min(N, k) data rows without the empty ones among them,
\* newest (lowest in the sheet) first, and never the header row.
ChatLogsLastN ==
    (listed.kind = "chat_logs" /\ listed.ok) =>
        LET rows == tables.chat_logs
            k == Len(rows) - 1
            n == IF listed.limit <= k THEN listed.limit ELSE k
            kept == {i \in (k + 2 - n)..(k + 1) : rows[i] # <<>>}
        IN  /\ Len(listed.items) = Cardinality(kept)
            /\ \A i \in kept :
                  listed.items[Cardinality({j \in kept : j >= i})] = ChatLogOfRow(rows[i])
            /\ \A j \in 1..Len(listed.items) : listed.items[j].timestamp # BadDate
\* three data rows read with limit 2: of the last two rows one is empty,
\* and the other one is the only entry returned
ChatLogsLastNWitness ==
    /\ listed.kind = "chat_logs"
    /\ listed.ok
    /\ listed.limit = 2
    /\ Len(tables.chat_logs) = 4
    /\ tables.chat_logs[3] = <<>>
    /\ Len(listed.items) = 1
    /\ listed.items[1].timestamp = 2


\* the fields of each table in column order, and the record of empty values
Columns(kind) ==
    CASE kind = "events" -> <<"id", "title", "description", "date_iso", "location",
                              "rsvp_form", "visible", "created_at">>
      [] kind = "notices" -> <<"id", "title", "body_html", "category", "posted_at_iso",
                               "visible", "created_at">>
      [] kind = "registrations" -> <<"id", "event_id", "name", "email", "phone",
                                     "department", "year", "additional_info",
                                     "registered_at">>
      [] kind = "chat_logs" -> <<"timestamp", "user_email", "user_name", "question",
                                 "model_used", "status", "raw_response",
                                 "final_answer_html", "source_links", "error">>
Blank(kind) ==
    CASE kind = "events" ->
            [id |-> <<>>, title |-> "", description |-> "", date_iso |-> 0,
             location |-> "", rsvp_form |-> "", visible |-> FALSE, created_at |-> 0]
      [] kind = "notices" ->
            [id |-> <<>>, title |-> "", body_html |-> "", category |-> "",
             posted_at_iso |-> 0, visible |-> FALSE, created_at |-> 0]
      [] kind = "registrations" ->
            [id |-> <<>>, event_id |-> <<>>, name |-> <<>>, email |-> <<>>,
             phone |-> "", department |-> "", year |-> "", additional_info |-> "",
             registered_at |-> 0]
      [] kind = "chat_logs" ->
            [timestamp |-> 0, user_email |-> <<>>, user_name |-> "", question |-> 0,
             model_used |-> "", status |-> "", raw_response |-> "",
             final_answer_html |-> <<>>, source_links |-> <<>>, error |-> ""]
\* the cell of column c (from 1) is absent from the row or empty
CellMissing(kind, row, c) ==
    \/ c > Len(row)
    \/ IF Columns(kind)[c] = "visible" THEN row[c] = ""
       ELSE row[c] = Blank(kind)[Columns(kind)[c]]
ReaderOf(kind, row, i, t) ==
    CASE kind = "events" -> EventOfRow(row, i, t)
      [] kind = "notices" -> NoticeOfRow(row, i, t)
      [] kind = "registrations" -> RegistrationOfRow(row)
      [] kind = "chat_logs" -> ChatLogOfRow(row)
\* what a reader gives the field of a missing cell of row i read at time t
MissingDefault(kind, f, i, t) ==
    CASE kind = "events" /\ f = "id" -> <<"event_", i>>
      [] kind = "events" /\ f = "created_at" -> t
      [] kind = "notices" /\ f = "id" -> <<"notice_", i>>
      [] kind = "notices" /\ f = "category" -> "General"
      [] kind = "notices" /\ f \in {"posted_at_iso", "created_at"} -> t
      [] kind = "chat_logs" /\ f = "status" -> "error"
      [] OTHER -> Blank(kind)[f]

\* C26 as stated: every entry a reader returns is the positional mapping of
\* a non-header row, and each field whose cell is missing is the empty
\* string (false for the visible flag).
MissingCellsReadEmpty ==
    (listed.ok /\ listed.kind \in Kinds) =>
        LET kind == listed.kind
            rows == tables[kind]
        IN  \A j \in 1..Len(listed.items) :
                \E i \in 2..Len(rows) :
                    /\ rows[i] # <<>>
                    /\ listed.items[j] = ReaderOf(kind, rows[i], i - 1, listed.at)
                    /\ \A c \in 1..Len(Columns(kind)) :
                          CellMissing(kind, rows[i], c) =>
                              listed.items[j][Columns(kind)[c]]
                                  = Blank(kind)[Columns(kind)[c]]

\* C26 amended: as above, except that a missing id is read as event_<i> or
\* notice_<i>, a missing notice category as "General", a missing
\* posted_at_iso of a notice and a missing created_at of an event or notice
\* as the time of the read, and a missing chat-log status as "error".
MissingCellsReadDefault ==
    (listed.ok /\ listed.kind \in Kinds) =>
        LET kind == listed.kind
            rows == tables[kind]
        IN  \A j \in 1..Len(listed.items) :
                \E i \in 2..Len(rows) :
                    /\ rows[i] # <<>>
                    /\ listed.items[j] = ReaderOf(kind, rows[i], i - 1, listed.at)
                    /\ \A c \in 1..Len(Columns(kind)) :
                          CellMissing(kind, rows[i], c) =>
                              listed.items[j][Columns(kind)[c]]
                                  = MissingDefault(kind, Columns(kind)[c], i - 1,
                                                   listed.at)
MissingCellsReadDefaultWitness ==
    /\ listed.ok
    /\ listed.kind = "notices"
    /\ Len(tables.notices) = 3
    /\ Len(listed.items) = 2
    /\ \E j \in 1..2 : /\ listed.items[j].category = "General"
                        /\ listed.items[j].title = ""
                        /\ listed.items[j].posted_at_iso = listed.at


\* C27: the registrations table never holds two rows with the same
\* (event_id, email) pair.
NoDuplicateRegistrations ==
    LET rows == tables.registrations
    IN  \A i, j \in 2..Len(rows) :
            i < j => ~(rows[i][2] = rows[j][2] /\ rows[i][4] = rows[j][4])


\* C28: every chat-log row with status "success" names one of the three
\* providers as model_used, and a row with model_used "none" has status
\* "error".
SuccessRowsNameProvider ==
    \A i \in 2..Len(tables.chat_logs) :
        LET row == tables.chat_logs[i]
        IN  /\ row[6] = "success" => row[5] \in {ModelId(Providers[k]) : k \in 1..3}
            /\ row[5] = "none" => row[6] = "error"


\* C29: in POST /api/register the two notification sends are started only
\* with the successful append of the registration row; a request answered
\* 400, 404, 409 or 500 has appended no row and started no send; and the end
\* of a send, failed or not, leaves the response and the tables as they were.
NotificationsAfterAppend ==
    [][/\ api'.route = "POST /api/register" =>
             /\ api'.sends \in {0, 2}
             /\ api'.sends = 2 <=> (api'.write = "ok" /\ api'.appended = 1)
             /\ (api.sends = 0 /\ api'.sends = 2) =>
                   /\ Len(tables'.registrations) = Len(tables.registrations) + 1
                   /\ api'.status = 200
             /\ (api'.pc = "responded" /\ api'.status # 200) =>
                   /\ api'.status \in {400, 404, 409, 500}
                   /\ api'.appended = 0
                   /\ api'.sends = 0
                   /\ tables' = tables
       /\ (api'.sends = api.sends /\ api'.pending < api.pending) =>
             /\ api'.status = api.status
             /\ api'.success = api.success
             /\ api'.error = api.error
             /\ tables' = tables]_vars
\* a registration was accepted and one of its two sends failed
NotificationsAfterAppendWitness ==
    /\ RegisterResponded
    /\ api.status = 200
    /\ api.success
    /\ api.sends = 2
    /\ api.pending = 0
    /\ api.sendFailed


\* C30: a session token issued by a login is accepted by requireAdmin at
\* every time up to its expiry, 24 hours after issue, and answered 401 at
\* every later time; and a token that cannot be decoded, whose expiry is in
\* the past or that carries no expiry is answered 401.
SessionTokensExpire ==
    adm.route = "guarded" =>
        /\ (adm.bearer \in sessions /\ adm.at <= adm.bearer.exp) => adm.status = 200
        /\ (adm.bearer \in sessions /\ adm.at > adm.bearer.exp) => adm.status = 401
        /\ (adm.bearer.kind = "text" /\ adm.bearer.text # adminKey) => adm.status = 401
        /\ (adm.bearer.kind = "payload" /\ adm.bearer.hasExp
              /\ adm.bearer.exp < adm.at) => adm.status = 401
        /\ (adm.bearer.kind = "payload" /\ ~adm.bearer.hasExp) => adm.status = 401

====
